---- MODULE Spec2Model ----
(***************************************************************************)
(* ZG-303Z soil sensor driver (drivers/zg-303z/device.ts and lib/):        *)
(* the lifecycle coordinator (attach, queued settings, wake handling with  *)
(* debounce), the outbound datapoint writes and the inbound datapoint      *)
(* processing, as a state machine over one device instance.                *)
(*                                                                         *)
(* Numbers that JavaScript keeps as floats (settings, published values)    *)
(* are fixed-point integers counting hundredths (Scale); wire values and   *)
(* raw datapoint values are plain integers.                                *)
(***************************************************************************)
EXTENDS Integers, Sequences, FiniteSets, TLC

----------------------------------------------------------------------------
(* Program constants *)

DEBOUNCE_MS == 5000

TUYA_CLUSTER_ID == 61184

POWER_CONFIGURATION_ID == 1

DT_RAW == 0
DT_BOOL == 1
DT_VALUE == 2
DT_STRING == 3
DT_ENUM == 4
DT_BITMAP == 5

DP_SOIL_CALIBRATION == 102
DP_TEMP_CALIBRATION == 104
DP_HUMIDITY_CALIBRATION == 105
DP_TEMP_UNIT == 106
DP_SOIL_WARNING_THRESHOLD == 110
DP_TEMP_SAMPLING_INTERVAL == 111
DP_SOIL_SAMPLING_INTERVAL == 112

DEFAULT_SOIL_WARNING_PERCENT == 30
DEFAULT_CALIBRATION == 0
DEFAULT_SAMPLING_SECONDS == 1800

(* Fixed-point scale of the numbers JavaScript keeps as floats. *)
Scale == 10 * 10

----------------------------------------------------------------------------
(* Bounds of the model *)

(* The clock advances by half debounce windows, MaxTicks times. *)
TickMs == DEBOUNCE_MS \div 2
MaxTicks == 2

(* Handlers suspended at an await at the same time. *)
MaxTasks == 2

(* Wake signals the environment sends on its own (announces, reports). *)
MaxExtEvents == 2

----------------------------------------------------------------------------
(* lib/zg303z.ts *)

Min2(a, b) == IF a < b THEN a ELSE b
Max2(a, b) == IF a > b THEN a ELSE b

(* Number.NaN and undefined where a number in hundredths is expected: two
   values beyond every number the functions below are given. *)
NaN == 2000000000
Undefined == 2000000001

(* value ?? fallback *)
OrDefault(value, fallback) == IF value = Undefined THEN fallback ELSE value

(* value, min, max in hundredths *)
clampNumber(value, min, max) ==
  IF value = NaN THEN min ELSE Min2(max, Max2(min, value))

(* A variant of clampPercent that bounds from above only: C24 does not hold
   of it. *)
clampPercentUpperOnly(value) == Min2(100 * Scale, value)

clampPercent(value) == clampNumber(value, 0, 100 * Scale)

(* Math.round of a number given in hundredths: the nearest integer, halves up *)
MathRound(value) == (value + (Scale \div 2)) \div Scale

clampInt(value, min, max) == MathRound(clampNumber(value, min * Scale, max * Scale))

(* A variant of toTuyaTemperatureCalibrationTenths that takes the degrees
   for tenths: C32 does not hold of it. *)
toTuyaTemperatureCalibrationUnscaled(offsetC) == clampInt(offsetC, -20, 20)

(* NaN * 10 is NaN *)
toTuyaTemperatureCalibrationTenths(offsetC) ==
  clampInt(IF offsetC = NaN THEN NaN ELSE offsetC * 10, -20, 20)

toTuyaPercentCalibration(offsetPercent) == clampInt(offsetPercent, -30, 30)

(* A variant of toTuyaSamplingSeconds that rounds and does not clamp: C31
   does not hold of it. *)
toTuyaSamplingSecondsUnclamped(seconds) ==
  IF seconds = NaN THEN 0 ELSE MathRound(seconds)

toTuyaSamplingSeconds(seconds) == clampInt(seconds, 5, 3600)

toTuyaSoilWarningThresholdPercent(percent) == clampInt(percent, 0, 100)

(* A JavaScript value where a number is expected: undefined, NaN or a
   number (in hundredths). *)
JsNumber(kind, v) == [kind |-> kind, v |-> v]

(* params.x ?? 0, then Math.max(0, .) *)
NonNegativeOrZero(x) == IF x.kind = "number" THEN Max2(0, x.v) ELSE 0

(* What emaUpdate returns: the number v, or, smoothed, a number between v
   and w that previous + alpha * (next - previous) gives for the alpha of
   1 - Math.exp(-dt / tau). *)
EmaExactly(next) == [t |-> "number", v |-> next, w |-> next]
EmaSmoothed(previous, next) == [t |-> "smoothed", v |-> previous, w |-> next]

(* A variant of emaUpdate without the test of dt: C27 does not hold of it. *)
emaUpdateNoDtCheck(previous, next, dtSeconds, tauSeconds) ==
  IF previous.kind # "number" THEN EmaExactly(next)
  ELSE LET tau == NonNegativeOrZero(tauSeconds)
           dt == NonNegativeOrZero(dtSeconds)
       IN IF tau = 0 THEN EmaExactly(next)
          ELSE EmaSmoothed(previous.v, next)

emaUpdate(previous, next, dtSeconds, tauSeconds) ==
  IF previous.kind # "number" THEN EmaExactly(next)
  ELSE LET tau == NonNegativeOrZero(tauSeconds)
           dt == NonNegativeOrZero(dtSeconds)
       IN IF tau = 0 \/ dt = 0 THEN EmaExactly(next)
          ELSE EmaSmoothed(previous.v, next)

(* A variant of computeWaterAlarmFromSoilMoisture that alarms at the
   threshold too: C28 does not hold of it. *)
computeWaterAlarmAtThreshold(soilMoisturePercent, thresholdPercent) ==
  soilMoisturePercent <= clampPercent(thresholdPercent)

computeWaterAlarmFromSoilMoisture(soilMoisturePercent, thresholdPercent) ==
  soilMoisturePercent < clampPercent(thresholdPercent)

----------------------------------------------------------------------------
(* Settings *)

SettingKeys ==
  {"temperature_sampling", "soil_sampling", "soil_warning",
   "temperature_calibration", "humidity_calibration", "soil_calibration"}

(* The stored settings before any change by the user. *)
InitialSettings ==
  [k \in SettingKeys |->
     CASE k \in {"temperature_sampling", "soil_sampling"} -> DEFAULT_SAMPLING_SECONDS * Scale
       [] k = "soil_warning" -> DEFAULT_SOIL_WARNING_PERCENT * Scale
       [] OTHER -> DEFAULT_CALIBRATION * Scale]

(* The changes the user makes: the changed keys in order, and their new values. *)
SettingsChanges ==
  { [changedKeys |-> <<"soil_warning">>,
     values |-> [k \in {"soil_warning"} |-> 70 * Scale]],
    [changedKeys |-> <<"temperature_sampling", "temperature_calibration">>,
     values |-> [k \in {"temperature_sampling", "temperature_calibration"} |->
                   IF k = "temperature_sampling" THEN 4000 * Scale ELSE 150]] }

Req(kind, dp, val) == [req |-> kind, dp |-> dp, val |-> val]

WriteReq(dp, val) == Req("write", dp, val)

(* The datapoint write onSettings sends for one changed key; the value of
   a setting that is not stored is the default. *)
KeyWrite(key, value) ==
  CASE key = "temperature_sampling" ->
         WriteReq(DP_TEMP_SAMPLING_INTERVAL,
                  toTuyaSamplingSeconds(OrDefault(value, DEFAULT_SAMPLING_SECONDS * Scale)))
    [] key = "soil_sampling" ->
         WriteReq(DP_SOIL_SAMPLING_INTERVAL,
                  toTuyaSamplingSeconds(OrDefault(value, DEFAULT_SAMPLING_SECONDS * Scale)))
    [] key = "soil_warning" ->
         WriteReq(DP_SOIL_WARNING_THRESHOLD,
                  toTuyaSoilWarningThresholdPercent(
                    OrDefault(value, DEFAULT_SOIL_WARNING_PERCENT * Scale)))
    [] key = "temperature_calibration" ->
         WriteReq(DP_TEMP_CALIBRATION,
                  toTuyaTemperatureCalibrationTenths(
                    OrDefault(value, DEFAULT_CALIBRATION * Scale)))
    [] key = "humidity_calibration" ->
         WriteReq(DP_HUMIDITY_CALIBRATION,
                  toTuyaPercentCalibration(OrDefault(value, DEFAULT_CALIBRATION * Scale)))
    [] OTHER ->
         WriteReq(DP_SOIL_CALIBRATION,
                  toTuyaPercentCalibration(OrDefault(value, DEFAULT_CALIBRATION * Scale)))

(* A variant of SettingsPayload that sets the temperature unit to 1: C36
   does not hold of it. *)
SettingsPayloadUnitOne(s) ==
  << WriteReq(DP_TEMP_UNIT, 1),
     KeyWrite("temperature_sampling", s["temperature_sampling"]),
     KeyWrite("soil_sampling", s["soil_sampling"]),
     KeyWrite("soil_warning", s["soil_warning"]),
     KeyWrite("temperature_calibration", s["temperature_calibration"]),
     KeyWrite("humidity_calibration", s["humidity_calibration"]),
     KeyWrite("soil_calibration", s["soil_calibration"]) >>

(* applyDeviceSettings: the writes of the full settings payload, in order. *)
SettingsPayload(s) ==
  << WriteReq(DP_TEMP_UNIT, 0),
     KeyWrite("temperature_sampling", s["temperature_sampling"]),
     KeyWrite("soil_sampling", s["soil_sampling"]),
     KeyWrite("soil_warning", s["soil_warning"]),
     KeyWrite("temperature_calibration", s["temperature_calibration"]),
     KeyWrite("humidity_calibration", s["humidity_calibration"]),
     KeyWrite("soil_calibration", s["soil_calibration"]) >>

WriteDps ==
  {DP_TEMP_UNIT, DP_TEMP_SAMPLING_INTERVAL, DP_SOIL_SAMPLING_INTERVAL,
   DP_SOIL_WARNING_THRESHOLD, DP_TEMP_CALIBRATION, DP_HUMIDITY_CALIBRATION,
   DP_SOIL_CALIBRATION}

----------------------------------------------------------------------------
(* lib/tuyaFrame.ts: frames are sequences of bytes *)

Byte == 0..255

(* A variant of readZclHeaderLength that tests bit 3 of the frame control:
   C16 does not hold of it. *)
readZclHeaderLengthBit3(frame) ==
  IF Len(frame) < 3 THEN 0
  ELSE IF (frame[1] \div 8) % 2 = 1 THEN 5 ELSE 3

readZclHeaderLength(frame) ==
  IF Len(frame) < 3 THEN 0
  ELSE IF (frame[1] \div 4) % 2 = 1 THEN 5 ELSE 3

(* A variant of DecodeEntries that keeps the entry whose declared length
   overruns the buffer, with the bytes there are: C15 does not hold of it. *)
RECURSIVE DecodeEntriesKeepingPartial(_, _)
DecodeEntriesKeepingPartial(frame, offset) ==
  IF Len(frame) - offset >= 4
  THEN LET dp == frame[offset + 1]
           datatype == frame[offset + 2]
           len == frame[offset + 3] * 256 + frame[offset + 4]
           dataAt == offset + 4
       IN IF len < 0 \/ Len(frame) - dataAt < len
          THEN << [dp |-> dp, datatype |-> datatype,
                   data |-> SubSeq(frame, dataAt + 1, Len(frame))] >>
          ELSE << [dp |-> dp, datatype |-> datatype,
                   data |-> SubSeq(frame, dataAt + 1, dataAt + len)] >>
               \o DecodeEntriesKeepingPartial(frame, dataAt + len)
  ELSE << >>

(* A variant of DecodeEntries that reads the length least significant byte
   first: C17 does not hold of it. *)
RECURSIVE DecodeEntriesLittleEndian(_, _)
DecodeEntriesLittleEndian(frame, offset) ==
  IF Len(frame) - offset >= 4
  THEN LET dp == frame[offset + 1]
           datatype == frame[offset + 2]
           len == frame[offset + 4] * 256 + frame[offset + 3]
           dataAt == offset + 4
       IN IF len < 0 \/ Len(frame) - dataAt < len
          THEN << >>
          ELSE << [dp |-> dp, datatype |-> datatype,
                   data |-> SubSeq(frame, dataAt + 1, dataAt + len)] >>
               \o DecodeEntriesLittleEndian(frame, dataAt + len)
  ELSE << >>

(* The while loop of decodeTuyaDpValuesFromZclFrame, from a 0-based offset.
   Every read is at an offset the loop's conditions keep inside the buffer;
   a read outside it, a RangeError in the code, is an index outside the
   sequence here, which has no value. *)
RECURSIVE DecodeEntries(_, _)
DecodeEntries(frame, offset) ==
  IF Len(frame) - offset >= 4
  THEN LET dp == frame[offset + 1]
           datatype == frame[offset + 2]
           len == frame[offset + 3] * 256 + frame[offset + 4]
           dataAt == offset + 4
       IN IF len < 0 \/ Len(frame) - dataAt < len
          THEN << >>
          ELSE << [dp |-> dp, datatype |-> datatype,
                   data |-> SubSeq(frame, dataAt + 1, dataAt + len)] >>
               \o DecodeEntries(frame, dataAt + len)
  ELSE << >>

(* status and transid are absent (<< >>) when the frame ends before them. *)
decodeTuyaDpValuesFromZclFrame(frame) ==
  LET headerLen == readZclHeaderLength(frame) IN
  IF headerLen = 0 \/ Len(frame) < headerLen
  THEN [zclHeaderLength |-> 0, commandId |-> 0, status |-> << >>,
        transid |-> << >>, dpValues |-> << >>]
  ELSE IF Len(frame) - headerLen < 2
  THEN [zclHeaderLength |-> headerLen, commandId |-> frame[headerLen],
        status |-> << >>, transid |-> << >>, dpValues |-> << >>]
  ELSE [zclHeaderLength |-> headerLen, commandId |-> frame[headerLen],
        status |-> << frame[headerLen + 1] >>,
        transid |-> << frame[headerLen + 2] >>,
        dpValues |-> DecodeEntries(frame, headerLen + 2)]

----------------------------------------------------------------------------
(* Buffer reads and writes *)

readUInt8(data) == data[1]

readUInt16BE(data) == data[1] * 256 + data[2]

readInt16BE(data) ==
  LET u == readUInt16BE(data) IN IF u >= 32768 THEN u - 65536 ELSE u

(* Two's complement, most significant byte first; computed from the signed
   top byte so that no intermediate value leaves the 32-bit range. *)
readInt32BE(data) ==
  LET top == IF data[1] >= 128 THEN data[1] - 256 ELSE data[1]
  IN ((top * 256 + data[2]) * 256 + data[3]) * 256 + data[4]

(* A variant of writeInt32BE that writes the least significant byte first:
   C40 does not hold of it. *)
writeInt32LE(value) ==
  << value % 256, (value \div 256) % 256,
     (value \div 65536) % 256, (value \div 16777216) % 256 >>

(* Buffer.alloc(4) then writeInt32BE(value, 0), for value in the int32 range *)
writeInt32BE(value) ==
  << (value \div 16777216) % 256, (value \div 65536) % 256,
     (value \div 256) % 256, value % 256 >>

----------------------------------------------------------------------------
(* device.ts: datapoint processing *)

NumV(n) == [t |-> "number", v |-> n]
BoolV(b) == [t |-> "boolean", v |-> IF b THEN 1 ELSE 0]
Thrown == [t |-> "throw", v |-> 0]

(* A read at offset 0 of an empty buffer throws a RangeError. *)
parseDpValue(datatype, data) ==
  CASE datatype = DT_BOOL ->
         IF Len(data) >= 1 THEN BoolV(readUInt8(data) # 0) ELSE Thrown
    [] datatype = DT_VALUE ->
         IF Len(data) >= 4 THEN NumV(readInt32BE(data))
         ELSE IF Len(data) >= 2 THEN NumV(readInt16BE(data))
         ELSE IF Len(data) >= 1 THEN NumV(readUInt8(data))
         ELSE Thrown
    [] datatype = DT_ENUM ->
         IF Len(data) >= 1 THEN NumV(readUInt8(data)) ELSE Thrown
    [] OTHER ->
         IF Len(data) >= 4 THEN NumV(readInt32BE(data))
         ELSE IF Len(data) >= 2 THEN NumV(readUInt16BE(data))
         ELSE IF Len(data) >= 1 THEN NumV(readUInt8(data))
         ELSE Thrown

(* A variant of DP_HANDLERS that takes identifier 200 for soil moisture:
   C21 does not hold of it. *)
DP_HANDLERS_With200 ==
  [dp \in {5, 101, 3, 107, 15, 108, 109, 1, 14, 102, 104, 105, 106, 110, 111, 112, 200} |->
     CASE dp \in {5, 101} -> [handler |-> "temperature", divideBy |-> 10]
       [] dp \in {3, 107, 200} -> [handler |-> "soilMoisture", divideBy |-> 1]
       [] dp \in {15, 108} -> [handler |-> "battery", divideBy |-> 1]
       [] dp = 109 -> [handler |-> "humidity", divideBy |-> 1]
       [] dp \in {1, 14} -> [handler |-> "waterWarning", divideBy |-> 1]
       [] OTHER -> [handler |-> "setting", divideBy |-> 1]]

(* A variant of DP_HANDLERS that takes the legacy battery identifier 15 for
   the humidity: C22 does not hold of it. *)
DP_HANDLERS_15AsHumidity ==
  [dp \in {5, 101, 3, 107, 15, 108, 109, 1, 14, 102, 104, 105, 106, 110, 111, 112} |->
     CASE dp \in {5, 101} -> [handler |-> "temperature", divideBy |-> 10]
       [] dp \in {3, 107} -> [handler |-> "soilMoisture", divideBy |-> 1]
       [] dp = 108 -> [handler |-> "battery", divideBy |-> 1]
       [] dp \in {15, 109} -> [handler |-> "humidity", divideBy |-> 1]
       [] dp \in {1, 14} -> [handler |-> "waterWarning", divideBy |-> 1]
       [] OTHER -> [handler |-> "setting", divideBy |-> 1]]

(* lib/zg303zDatapoints.ts; divideBy 1 stands for no divideBy *)
DP_HANDLERS ==
  [dp \in {5, 101, 3, 107, 15, 108, 109, 1, 14, 102, 104, 105, 106, 110, 111, 112} |->
     CASE dp \in {5, 101} -> [handler |-> "temperature", divideBy |-> 10]
       [] dp \in {3, 107} -> [handler |-> "soilMoisture", divideBy |-> 1]
       [] dp \in {15, 108} -> [handler |-> "battery", divideBy |-> 1]
       [] dp = 109 -> [handler |-> "humidity", divideBy |-> 1]
       [] dp \in {1, 14} -> [handler |-> "waterWarning", divideBy |-> 1]
       [] OTHER -> [handler |-> "setting", divideBy |-> 1]]

(* A variant of rawTemperatureTimes10ToCelsius that divides the value the
   table's divisor has divided already: C23 does not hold of it. *)
rawTemperatureDividedTwice(rawTimes10) == ((rawTimes10 * Scale) \div 10) \div 10

rawTemperatureTimes10ToCelsius(rawTimes10) == (rawTimes10 * Scale) \div 10

(* The published capability values; << >> is a capability never set. *)
NoCapabilities ==
  [measure_temperature |-> << >>, measure_soil_moisture |-> << >>,
   measure_battery |-> << >>, measure_humidity |-> << >>, alarm_water |-> << >>]

(* The part of the device a datapoint can change:
   last is lastSoilMoisturePercent (<< >> is undefined), caps the published
   values, threw whether processing threw. *)
DpState(last, caps) == [last |-> last, caps |-> caps, threw |-> FALSE]

processDataPoint(dp, datatype, data, threshold, st) ==
  IF dp \notin DOMAIN DP_HANDLERS THEN st
  ELSE
    LET mapping == DP_HANDLERS[dp]
        rawValue == parseDpValue(datatype, data)
        isNumber == rawValue.t = "number"
        (* value, in hundredths; the same as rawValue when it is a boolean *)
        value == IF isNumber THEN (rawValue.v * Scale) \div mapping.divideBy ELSE rawValue.v
    IN
    IF rawValue.t = "throw" THEN [st EXCEPT !.threw = TRUE]
    ELSE CASE mapping.handler = "temperature" ->
                IF isNumber
                THEN [st EXCEPT !.caps.measure_temperature =
                                   << rawTemperatureTimes10ToCelsius(rawValue.v) >>]
                ELSE st
           [] mapping.handler = "soilMoisture" ->
                IF isNumber
                THEN LET soilMoisture == clampPercent(value) IN
                     [st EXCEPT !.last = << soilMoisture >>,
                                !.caps.measure_soil_moisture = << soilMoisture >>,
                                !.caps.alarm_water =
                                   << computeWaterAlarmFromSoilMoisture(soilMoisture,
                                        OrDefault(threshold,
                                                  DEFAULT_SOIL_WARNING_PERCENT * Scale)) >>]
                ELSE st
           [] mapping.handler = "battery" ->
                IF isNumber
                THEN [st EXCEPT !.caps.measure_battery = << clampPercent(value) >>]
                ELSE st
           [] mapping.handler = "humidity" ->
                IF isNumber
                THEN [st EXCEPT !.caps.measure_humidity = << clampPercent(value) >>]
                ELSE st
           [] mapping.handler = "waterWarning" ->
                [st EXCEPT !.caps.alarm_water =
                   << IF isNumber THEN value = 1 * Scale ELSE rawValue.v = 1 >>]
           [] OTHER -> st

(* The for loop of parseRawTuyaFrame: a throw leaves the loop. *)
RECURSIVE ProcessEntries(_, _, _)
ProcessEntries(dpValues, threshold, st) ==
  IF dpValues = << >> \/ st.threw THEN st
  ELSE ProcessEntries(Tail(dpValues), threshold,
         processDataPoint(Head(dpValues).dp, Head(dpValues).datatype,
                          Head(dpValues).data, threshold, st))

(* The error is caught and logged: nothing is thrown to the caller. *)
parseRawTuyaFrame(frame, threshold, st) ==
  [ProcessEntries(decodeTuyaDpValuesFromZclFrame(frame).dpValues, threshold, st)
     EXCEPT !.threw = FALSE]

(* A report of the cluster's events: args is << >> when the event carries
   none, else a record whose dp and datatype are << >> (undefined) or << n >>
   and whose data is undefined, a number or a Buffer. A Buffer, empty or
   not, is truthy; a number is truthy when it is not 0, and Buffer.from([n])
   holds its low byte. *)
ReportData(kind, v) == [kind |-> kind, v |-> v]

(* processTuyaReport: what processDataPoint throws is thrown to the caller. *)
processTuyaReport(args, threshold, st) ==
  IF args = << >> THEN st
  ELSE LET a == args[1]
           truthy == \/ a.data.kind = "buffer"
                     \/ a.data.kind = "number" /\ a.data.v # 0
       IN IF a.dp # << >> /\ truthy
          THEN processDataPoint(a.dp[1],
                                IF a.datatype = << >> THEN 0 ELSE a.datatype[1],
                                IF a.data.kind = "buffer" THEN a.data.v
                                ELSE << a.data.v % 256 >>,
                                threshold, st)
          ELSE st

----------------------------------------------------------------------------
(* The device instance, its platform and its radio *)

VARIABLES
  now,                      (* Date.now(), in ms *)
  node,                     (* what the platform reports about the Zigbee node *)
  settings,                 (* the stored settings: getSetting *)
  attached,                 (* onNodeInit was called *)
  tuyaCluster,              (* this.tuyaCluster is not null *)
  endpoint1,                (* this.endpoint1 is not null *)
  rawHandler,               (* endpoint.handleFrame is intercepted *)
  lastSoilMoisturePercent,  (* << >> is undefined *)
  pendingSettingsApply,
  lastWakeHandledAt,
  caps,                     (* the capability values published *)
  available,                (* the device was marked available *)
  tasks,                    (* the async calls suspended at an await *)
  extLeft,                  (* wake signals the environment may still send *)
  ev,                       (* the step just taken *)
  out,                      (* the requests that step sent to the device *)
  attachLog,                (* what the attaches of the device did so far *)
  call                      (* a function of the driver called on its own *)

vars ==
  << now, node, settings, attached, tuyaCluster, endpoint1, rawHandler,
     lastSoilMoisturePercent, pendingSettingsApply, lastWakeHandledAt, caps,
     available, tasks, extLeft, ev, out, attachLog, call >>

(* The nodes a device instance can be attached to. The clusters live on
   endpoint 1: without it there is neither a Tuya nor a power cluster. *)
NodeConfigs ==
  { n \in [receiveWhenIdle : BOOLEAN, firstInit : BOOLEAN, hasEndpoint1 : BOOLEAN,
           hasTuya : BOOLEAN, hasPowerCfg : BOOLEAN] :
      ~n.hasEndpoint1 => (~n.hasTuya /\ ~n.hasPowerCfg) }

(* batteryPercentageRemaining as the device reports it, in half percents *)
BatteryReports == {200}

(* The frame the device sends on its own: the report of the decoder's test
   (manufacturer-specific header, soil moisture 54 and temperature 253 under
   the 107/101 scheme). *)
ReportFrames ==
  { << 5, 17, 34, 1, 2, 0, 16 >>
      \o << 107, DT_VALUE, 0, 4 >> \o writeInt32BE(54)
      \o << 101, DT_VALUE, 0, 4 >> \o writeInt32BE(253) }

(* The ZCL default response by which the device acknowledges a command of
   the Tuya cluster: frame control, sequence number, command 0x0b, then the
   acknowledged command and the status. *)
DefaultResponseFrame == << 24, 1, 11, 0, 0 >>

(* Suspended async calls *)

Task(kind, pc, payload, idx, isSleepy, newSettings, changedKeys) ==
  [kind |-> kind, pc |-> pc, payload |-> payload, idx |-> idx,
   isSleepy |-> isSleepy, newSettings |-> newSettings, changedKeys |-> changedKeys]

RemoveAt(seq, i) == SubSeq(seq, 1, i - 1) \o SubSeq(seq, i + 1, Len(seq))

ReplaceAt(seq, i, t) == [seq EXCEPT ![i] = t]

(* A variant of isDeviceSleepy that reads the flag the wrong way round: C3
   does not hold of it. *)
isDeviceSleepyInverted == node.receiveWhenIdle = TRUE

isDeviceSleepy == node.receiveWhenIdle = FALSE

ReadBatteryReq == Req("readBattery", 0, 0)

MagicPacketReq == Req("readBasic", 0, 0)

(* The number of datapoint writes among the requests of a step. *)
Writes(reqs) == IF reqs # << >> /\ reqs[1].req = "write" THEN 1 ELSE 0

NoTask(kind, pc) == Task(kind, pc, << >>, 0, FALSE, InitialSettings, << >>)

Step(ts, reqs) == [tasks |-> ts, out |-> reqs]


(* No suspended call. *)
Idle == NoTask("none", "none")

(* What the attaches did: isSleepy is the mode the last onNodeInit found
   (<< >> when none got that far), magicPackets counts the magic packets
   sent over all attaches. *)
NeverAttached == [isSleepy |-> << >>, magicPackets |-> 0]

(* No function is called on its own. *)
NoCall == [fn |-> "none", args |-> << >>, done |-> FALSE, result |-> << >>]

(* A step: the operation, whether it started a wake handling, whether the
   await it settled resolved, and the suspended call that went on (as it was
   before the step). *)
Event(op, handled, ok, task) ==
  [op |-> op, handled |-> handled, ok |-> ok, task |-> task]

Init ==
  /\ now = DEBOUNCE_MS
  /\ node \in NodeConfigs
  /\ settings = InitialSettings
  /\ attached = FALSE
  /\ tuyaCluster = FALSE
  /\ endpoint1 = FALSE
  /\ rawHandler = FALSE
  /\ lastSoilMoisturePercent = << >>
  /\ pendingSettingsApply = FALSE
  /\ lastWakeHandledAt = 0
  /\ caps = NoCapabilities
  /\ available = FALSE
  /\ tasks = << >>
  /\ extLeft = MaxExtEvents
  /\ ev = Event("new", FALSE, FALSE, Idle)
  /\ out = << >>
  /\ attachLog = NeverAttached
  /\ call = NoCall

----------------------------------------------------------------------------
(* onDeviceAwake, up to its first await *)

(* A variant of Debounced that takes the window for seconds while the clock
   counts milliseconds: C4 does not hold of it. *)
DebouncedInSeconds == now - lastWakeHandledAt < DEBOUNCE_MS \div 1000

Debounced == now - lastWakeHandledAt < DEBOUNCE_MS

(* A variant of AwakeLast that stamps the wake before the debounce check:
   C5 does not hold of it. *)
AwakeLastBeforeCheck == now

AwakeLast == IF Debounced THEN lastWakeHandledAt ELSE now

(* A handled wake event calls setAvailable and suspends there. *)
AwakeTasks(ts) == IF Debounced THEN ts ELSE Append(ts, NoTask("wake", "avail"))

(* A handled wake event needs room for its suspended handler. *)
AwakeRoom == Debounced \/ Len(tasks) < MaxTasks

(* readBattery: the read is sent when the endpoint has the power cluster. *)
readBattery(ts, kind, hasCluster) ==
  IF hasCluster
  THEN Step(Append(ts, NoTask(kind, "battery")), << ReadBatteryReq >>)
  ELSE Step(ts, << >>)

(* applyDeviceSettings up to its first await: the settings are read, the
   first write of the payload is sent. *)
applyDeviceSettings(ts, kind) ==
  LET payload == SettingsPayload(settings) IN
  Step(Append(ts, Task(kind, "write", payload, 1, FALSE, InitialSettings, << >>)),
       << payload[1] >>)

(* A variant of FlagAfterApply that leaves the flag as it is: C7 does not
   hold of it. *)
FlagKept == pendingSettingsApply

(* The value of pendingSettingsApply after the apply of a wake handler. *)
FlagAfterApply == FALSE

----------------------------------------------------------------------------
(* onNodeInit *)

(* onNodeInit from the lookup of the Tuya cluster on (ts: the other
   suspended calls). *)
InitAfterMagic(ts, isSleepy) ==
  IF isSleepy THEN Step(ts, << >>)
  ELSE IF node.hasTuya THEN applyDeviceSettings(ts, "init")
  ELSE readBattery(ts, "init", node.hasPowerCfg)

(* A variant of isFirstInit that takes every attach for the first: C11 does
   not hold of it. *)
isFirstInitAlways == TRUE

(* What the platform's isFirstInit() returns. *)
isFirstInit == node.firstInit

(* The endpoint is taken to hold the basic cluster, so that the magic packet
   is a read that is sent. endpoint.bind('tuya'), tried when the endpoint has
   no Tuya cluster, is a local call that leaves endpoint.clusters as it is. *)
OnNodeInit ==
  /\ ~attached
  /\ attached' = TRUE
  /\ ev' = Event("onNodeInit", FALSE, FALSE, Idle)
  /\ IF ~node.hasEndpoint1
     THEN /\ out' = << >>
          /\ UNCHANGED << endpoint1, tuyaCluster, rawHandler, tasks >>
     ELSE /\ endpoint1' = TRUE
          /\ IF isFirstInit
             THEN /\ tasks' = Append(tasks, Task("init", "magic", << >>, 0,
                                                 isDeviceSleepy, InitialSettings, << >>))
                  /\ out' = << MagicPacketReq >>
                  /\ UNCHANGED << tuyaCluster, rawHandler >>
             ELSE LET r == InitAfterMagic(tasks, isDeviceSleepy) IN
                  /\ tuyaCluster' = node.hasTuya
                  /\ rawHandler' = TRUE
                  /\ tasks' = r.tasks
                  /\ out' = r.out
  /\ attachLog' =
       IF ~node.hasEndpoint1 THEN attachLog
       ELSE [isSleepy |-> << isDeviceSleepy >>,
             magicPackets |-> attachLog.magicPackets + (IF isFirstInit THEN 1 ELSE 0)]
  /\ UNCHANGED << now, node, settings, lastSoilMoisturePercent, pendingSettingsApply,
                  lastWakeHandledAt, caps, available, extLeft, call >>

(* configureMagicPacket settles; resolved or rejected, onNodeInit goes on. *)
MagicSettled(i) ==
  /\ tasks[i].kind = "init" /\ tasks[i].pc = "magic"
  /\ LET r == InitAfterMagic(RemoveAt(tasks, i), tasks[i].isSleepy) IN
     /\ tuyaCluster' = node.hasTuya
     /\ rawHandler' = TRUE
     /\ tasks' = r.tasks
     /\ out' = r.out
     /\ ev' = Event("magicSettled", FALSE, TRUE, tasks[i])
  /\ UNCHANGED << now, node, settings, attached, endpoint1, lastSoilMoisturePercent,
                  pendingSettingsApply, lastWakeHandledAt, caps, available, extLeft,
                  attachLog, call >>

----------------------------------------------------------------------------
(* Wake events *)

OnEndDeviceAnnounce ==
  /\ attached
  /\ extLeft > 0
  /\ AwakeRoom
  /\ extLeft' = extLeft - 1
  /\ lastWakeHandledAt' = AwakeLast
  /\ tasks' = AwakeTasks(tasks)
  /\ ev' = Event("announce", ~Debounced, FALSE, Idle)
  /\ out' = << >>
  /\ UNCHANGED << now, node, settings, attached, tuyaCluster, endpoint1, rawHandler,
                  lastSoilMoisturePercent, pendingSettingsApply, caps, available,
                  attachLog, call >>

(* The interceptor of endpoint.handleFrame: which frames count as a wake. *)
FrameWakes(clusterId) == clusterId = TUYA_CLUSTER_ID

(* What the cluster's datapoint, reporting and response commands parse from
   a frame for the listeners of setupTuyaListeners: status, transaction id,
   the first entry's identifier, type tag and length, and as data the rest
   of the frame. << >> when the frame is not one of these commands or is
   too short for the fields. *)
ListenerArgs(frame) ==
  LET headerLen == readZclHeaderLength(frame) IN
  IF headerLen = 0 \/ Len(frame) < headerLen + 6 THEN << >>
  ELSE IF frame[headerLen] \notin {0, 1, 2} THEN << >>
  ELSE << [dp |-> << frame[headerLen + 3] >>,
           datatype |-> << frame[headerLen + 4] >>,
           data |-> ReportData("buffer",
                               SubSeq(frame, headerLen + 7, Len(frame)))] >>

(* A call of processDataPoint made while a frame is handled: the entry of
   the frame it is made for, by which path, and its arguments. *)
Dispatch(entry, via, dp, datatype, data) ==
  [entry |-> entry, via |-> via, dp |-> dp, datatype |-> datatype, data |-> data]

(* processDataPoint throws for these arguments. *)
DispatchThrows(dp, datatype, data) ==
  dp \in DOMAIN DP_HANDLERS /\ parseDpValue(datatype, data).t = "throw"

(* The calls of the for loop of parseRawTuyaFrame, from the entry at index
   on: one per decoded entry, in order, until one throws. *)
RECURSIVE RawDispatched(_, _)
RawDispatched(dpValues, index) ==
  IF index > Len(dpValues) THEN << >>
  ELSE LET e == dpValues[index] IN
       << Dispatch(index, "raw", e.dp, e.datatype, e.data) >>
         \o (IF DispatchThrows(e.dp, e.datatype, e.data) THEN << >>
             ELSE RawDispatched(dpValues, index + 1))

(* The call processTuyaReport makes for the event of a frame: for the
   frame's first entry. *)
ListenerDispatched(args) ==
  IF args = << >> THEN << >>
  ELSE << Dispatch(1, "listener", args[1].dp[1], args[1].datatype[1], args[1].data.v) >>

(* The step of a frame: as Event, with the frame and the calls of
   processDataPoint made for it. *)
FrameEvent(handled, frame, dispatched) ==
  [op |-> "frame", handled |-> handled, ok |-> FALSE, task |-> Idle,
   frame |-> frame, dispatched |-> dispatched]

(* A variant of HandleFrame that returns from the interceptor before the
   datapoints are processed when the wake is debounced: C38 does not hold of
   it. *)
HandleFrameDataDebounced(clusterId, frame) ==
  /\ rawHandler
  /\ IF FrameWakes(clusterId) /\ ~Debounced
     THEN \E delivered \in BOOLEAN :
          LET threshold == settings["soil_warning"]
              parsed == parseRawTuyaFrame(frame, threshold,
                                          DpState(lastSoilMoisturePercent, caps))
              args == IF delivered /\ tuyaCluster THEN ListenerArgs(frame) ELSE << >>
              st == processTuyaReport(args, threshold, parsed)
          IN
          /\ AwakeRoom
          /\ lastSoilMoisturePercent' = st.last
          /\ caps' = st.caps
          /\ lastWakeHandledAt' = AwakeLast
          /\ tasks' = AwakeTasks(tasks)
          /\ ev' = FrameEvent(TRUE, frame,
                              RawDispatched(decodeTuyaDpValuesFromZclFrame(frame).dpValues, 1)
                                \o ListenerDispatched(args))
     ELSE /\ UNCHANGED << lastSoilMoisturePercent, caps, lastWakeHandledAt, tasks >>
          /\ ev' = FrameEvent(FALSE, frame, << >>)
  /\ out' = << >>

(* The intercepted endpoint.handleFrame: the datapoints of a Tuya frame are
   processed, then the wake handler is called, then the original handler,
   which may hand the frame to the cluster and so to its listeners. *)
HandleFrame(clusterId, frame) ==
  /\ rawHandler
  /\ IF FrameWakes(clusterId)
     THEN \E delivered \in BOOLEAN :
          LET threshold == settings["soil_warning"]
              parsed == parseRawTuyaFrame(frame, threshold,
                                          DpState(lastSoilMoisturePercent, caps))
              args == IF delivered /\ tuyaCluster THEN ListenerArgs(frame) ELSE << >>
              st == processTuyaReport(args, threshold, parsed)
          IN
          /\ AwakeRoom
          /\ lastSoilMoisturePercent' = st.last
          /\ caps' = st.caps
          /\ lastWakeHandledAt' = AwakeLast
          /\ tasks' = AwakeTasks(tasks)
          /\ ev' = FrameEvent(~Debounced, frame,
                              RawDispatched(decodeTuyaDpValuesFromZclFrame(frame).dpValues, 1)
                                \o ListenerDispatched(args))
     ELSE /\ UNCHANGED << lastSoilMoisturePercent, caps, lastWakeHandledAt, tasks >>
          /\ ev' = FrameEvent(FALSE, frame, << >>)
  /\ out' = << >>

(* The device reports on its own. *)
ReportArrives ==
  /\ extLeft > 0
  /\ extLeft' = extLeft - 1
  /\ \E frame \in ReportFrames : HandleFrame(TUYA_CLUSTER_ID, frame)
  /\ UNCHANGED << now, node, settings, attached, tuyaCluster, endpoint1, rawHandler,
                  pendingSettingsApply, available, attachLog, call >>

----------------------------------------------------------------------------
(* The awaits of the handlers settle *)

(* setAvailable settles; onDeviceAwake goes on to its next await. *)
AvailSettled(i, ok) ==
  /\ tasks[i].kind = "wake" /\ tasks[i].pc = "avail"
  /\ available' = (ok \/ available)
  /\ LET rest == RemoveAt(tasks, i)
         applies == pendingSettingsApply /\ tuyaCluster
         r == IF applies THEN applyDeviceSettings(rest, "wake")
              ELSE readBattery(rest, "wake", endpoint1 /\ node.hasPowerCfg)
     IN /\ tasks' = r.tasks
        /\ out' = r.out
        /\ pendingSettingsApply' =
             IF pendingSettingsApply /\ ~tuyaCluster THEN FlagAfterApply
             ELSE pendingSettingsApply
        /\ ev' = Event("availSettled", FALSE, ok, tasks[i])
  /\ UNCHANGED << now, node, settings, attached, tuyaCluster, endpoint1, rawHandler,
                  lastSoilMoisturePercent, lastWakeHandledAt, caps, extLeft,
                  attachLog, call >>

(* A variant of NextWrite that sends a rejected write again: C10 does not
   hold of it. *)
NextWriteRetrying(t, ok) ==
  IF ~ok THEN t.idx
  ELSE IF t.idx < Len(t.payload) THEN t.idx + 1 ELSE 0

(* The index of the write a suspended call sends after its write idx settled,
   0 when it sends no further write: applyDeviceSettings stops at the first
   rejected write, onSettings catches the rejection and goes on. *)
NextWrite(t, ok) ==
  IF (ok \/ t.kind = "settings") /\ t.idx < Len(t.payload) THEN t.idx + 1 ELSE 0

(* A variant of SettingsAlarm that compares with the threshold stored
   before the change: C29 does not hold of it. *)
SettingsAlarmOldThreshold(changedKeys, newSettings, st) ==
  IF (\E j \in 1..Len(changedKeys) : changedKeys[j] = "soil_warning")
     /\ st.last # << >>
  THEN [st.caps EXCEPT !.alarm_water =
          << computeWaterAlarmFromSoilMoisture(st.last[1],
               OrDefault(settings["soil_warning"], DEFAULT_SOIL_WARNING_PERCENT * Scale)) >>]
  ELSE st.caps

(* The alarm onSettings publishes, from the state st of the datapoints. *)
SettingsAlarm(changedKeys, newSettings, st) ==
  IF (\E j \in 1..Len(changedKeys) : changedKeys[j] = "soil_warning")
     /\ st.last # << >>
  THEN [st.caps EXCEPT !.alarm_water =
          << computeWaterAlarmFromSoilMoisture(st.last[1],
               OrDefault(newSettings["soil_warning"], DEFAULT_SOIL_WARNING_PERCENT * Scale)) >>]
  ELSE st.caps

(* A datapoint write settles; the call that awaits it goes on. A write that
   resolves does so by the device's default response, a frame of the Tuya
   cluster that the interceptor of handleFrame sees first. *)
WriteSettled(i, ok) ==
  /\ tasks[i].pc = "write"
  /\ ok => (rawHandler /\ AwakeRoom)
  /\ LET t == tasks[i]
         wakes == ok /\ FrameWakes(TUYA_CLUSTER_ID)
         st == IF wakes
               THEN parseRawTuyaFrame(DefaultResponseFrame, settings["soil_warning"],
                                      DpState(lastSoilMoisturePercent, caps))
               ELSE DpState(lastSoilMoisturePercent, caps)
         woken == IF wakes THEN AwakeTasks(tasks) ELSE tasks
         rest == RemoveAt(woken, i)
         next == NextWrite(t, ok)
         r == IF next # 0
              THEN Step(ReplaceAt(woken, i, [t EXCEPT !.idx = next]), << t.payload[next] >>)
              ELSE IF t.kind = "wake"
              THEN readBattery(rest, "wake", endpoint1 /\ node.hasPowerCfg)
              ELSE IF t.kind = "init"
              THEN readBattery(rest, "init", node.hasPowerCfg)
              ELSE Step(rest, << >>)
     IN /\ lastWakeHandledAt' = IF wakes THEN AwakeLast ELSE lastWakeHandledAt
        /\ lastSoilMoisturePercent' = st.last
        /\ tasks' = r.tasks
        /\ out' = r.out
        /\ pendingSettingsApply' =
             IF next = 0 /\ t.kind = "wake" THEN FlagAfterApply ELSE pendingSettingsApply
        /\ caps' = IF next = 0 /\ t.kind = "settings"
                   THEN SettingsAlarm(t.changedKeys, t.newSettings, st) ELSE st.caps
        /\ settings' = IF next = 0 /\ t.kind = "settings" THEN t.newSettings ELSE settings
        /\ ev' = Event("writeSettled", wakes /\ ~Debounced, ok, t)
  /\ UNCHANGED << now, node, attached, tuyaCluster, endpoint1, rawHandler,
                  available, extLeft, attachLog, call >>

(* The read of batteryPercentageRemaining settles: rejected (~ok), resolved
   without the attribute (r = << >>) or with it. The response is a frame of
   the power cluster, which the interceptor sees first. *)
BatterySettled(i, ok, r) ==
  /\ tasks[i].pc = "battery"
  /\ ~ok => r = << >>
  /\ LET rest == RemoveAt(tasks, i)
         wakes == ok /\ rawHandler /\ FrameWakes(POWER_CONFIGURATION_ID)
     IN /\ tasks' = IF wakes THEN AwakeTasks(rest) ELSE rest
        /\ lastWakeHandledAt' = IF wakes THEN AwakeLast ELSE lastWakeHandledAt
        /\ ev' = Event("batterySettled", wakes /\ ~Debounced, ok, tasks[i])
  /\ caps' = IF ok /\ r # << >>
             THEN [caps EXCEPT !.measure_battery = << MathRound((r[1] * Scale) \div 2) * Scale >>]
             ELSE caps
  /\ out' = << >>
  /\ UNCHANGED << now, node, settings, attached, tuyaCluster, endpoint1, rawHandler,
                  lastSoilMoisturePercent, pendingSettingsApply, available,
                  extLeft, attachLog, call >>

----------------------------------------------------------------------------
(* onSettings *)

NewSettings(change) ==
  [k \in SettingKeys |->
     IF k \in DOMAIN change.values THEN change.values[k] ELSE settings[k]]

(* The writes of onSettings for an always-on device, one per changed key. *)
ChangedWrites(change) ==
  [j \in 1..Len(change.changedKeys) |->
     KeyWrite(change.changedKeys[j], change.values[change.changedKeys[j]])]

(* The platform stores the new settings when onSettings has resolved. *)
OnSettings(change) ==
  /\ attached
  /\ \A k \in DOMAIN change.values : change.values[k] # settings[k]
  /\ \A j \in 1..Len(tasks) : tasks[j].kind # "settings"
  /\ IF isDeviceSleepy
     THEN /\ pendingSettingsApply' = TRUE
          /\ caps' = SettingsAlarm(change.changedKeys, NewSettings(change),
                                   DpState(lastSoilMoisturePercent, caps))
          /\ settings' = NewSettings(change)
          /\ out' = << >>
          /\ UNCHANGED tasks
     ELSE IF tuyaCluster
     THEN LET payload == ChangedWrites(change) IN
          /\ Len(tasks) < MaxTasks
          /\ tasks' = Append(tasks, Task("settings", "write", payload, 1, FALSE,
                                         NewSettings(change), change.changedKeys))
          /\ out' = << payload[1] >>
          /\ UNCHANGED << pendingSettingsApply, caps, settings >>
     ELSE /\ caps' = SettingsAlarm(change.changedKeys, NewSettings(change),
                                   DpState(lastSoilMoisturePercent, caps))
          /\ settings' = NewSettings(change)
          /\ out' = << >>
          /\ UNCHANGED << pendingSettingsApply, tasks >>
  /\ ev' = Event("onSettings", FALSE, FALSE, Idle)
  /\ UNCHANGED << now, node, attached, tuyaCluster, endpoint1, rawHandler,
                  lastSoilMoisturePercent, lastWakeHandledAt, available, extLeft,
                  attachLog, call >>

----------------------------------------------------------------------------
(* Time *)

MaxTime == DEBOUNCE_MS + MaxTicks * TickMs

Tick ==
  /\ now + TickMs <= MaxTime
  /\ now' = now + TickMs
  /\ ev' = Event("tick", FALSE, FALSE, Idle)
  /\ out' = << >>
  /\ UNCHANGED << node, settings, attached, tuyaCluster, endpoint1, rawHandler,
                  lastSoilMoisturePercent, pendingSettingsApply, lastWakeHandledAt,
                  caps, available, tasks, extLeft, attachLog, call >>

----------------------------------------------------------------------------

Next ==
  \/ OnNodeInit
  \/ OnEndDeviceAnnounce
  \/ ReportArrives
  \/ \E change \in SettingsChanges : OnSettings(change)
  \/ \E i \in 1..Len(tasks) : MagicSettled(i)
  \/ \E i \in 1..Len(tasks), ok \in BOOLEAN : AvailSettled(i, ok)
  \/ \E i \in 1..Len(tasks), ok \in BOOLEAN : WriteSettled(i, ok)
  \/ \E i \in 1..Len(tasks), ok \in BOOLEAN, r \in {<< >>} \cup {<< v >> : v \in BatteryReports} :
        BatterySettled(i, ok, r)
  \/ Tick

Spec == Init /\ [][Next]_vars

(* The device instances attached to a sleepy node, and those attached to an
   always-on node. *)
InitSleepy == Init /\ node.receiveWhenIdle = FALSE

InitAlwaysOn == Init /\ node.receiveWhenIdle # FALSE

SpecSleepy == InitSleepy /\ [][Next]_vars

SpecAlwaysOn == InitAlwaysOn /\ [][Next]_vars

----------------------------------------------------------------------------
(* One queued change and the wake events that follow it *)

(* Only the difference of Date.now() and lastWakeHandledAt is read. Rebase
   moves the origin of the clock half a window on, so that time goes on
   without end while the numbers stay below MaxTime. *)
Rebase ==
  /\ now - TickMs >= DEBOUNCE_MS
  /\ lastWakeHandledAt >= TickMs
  /\ now' = now - TickMs
  /\ lastWakeHandledAt' = lastWakeHandledAt - TickMs
  /\ ev' = Event("rebase", FALSE, FALSE, Idle)
  /\ out' = << >>
  /\ UNCHANGED << node, settings, attached, tuyaCluster, endpoint1, rawHandler,
                  lastSoilMoisturePercent, pendingSettingsApply, caps, available,
                  tasks, extLeft, attachLog, call >>

(* The settings after one of the changes. *)
ChangedSettings ==
  { [k \in SettingKeys |->
       IF k \in DOMAIN change.values THEN change.values[k] ELSE InitialSettings[k]] :
    change \in SettingsChanges }

(* A sleepy device with its Tuya and power clusters, attached, that has queued one
   settings change and has seen no wake event yet; one wake event is to
   come. *)
InitAwake ==
  /\ now = DEBOUNCE_MS
  /\ node \in {n \in NodeConfigs : n.receiveWhenIdle = FALSE /\ ~n.firstInit
                                     /\ n.hasTuya /\ n.hasPowerCfg}
  /\ settings \in ChangedSettings
  /\ attached = TRUE
  /\ tuyaCluster = TRUE
  /\ endpoint1 = TRUE
  /\ rawHandler = TRUE
  /\ lastSoilMoisturePercent = << >>
  /\ pendingSettingsApply = TRUE
  /\ lastWakeHandledAt = 0
  /\ caps = NoCapabilities
  /\ available = FALSE
  /\ tasks = << >>
  /\ extLeft = 1
  /\ ev = Event("onSettings", FALSE, FALSE, Idle)
  /\ out = << >>
  /\ attachLog = [isSleepy |-> << TRUE >>, magicPackets |-> 0]
  /\ call = NoCall

(* The device announces itself, answers every write and read or lets it
   time out, and sends no frame unasked; the settings stay as they are. *)
NextAwake ==
  \/ OnEndDeviceAnnounce
  \/ \E i \in 1..Len(tasks), ok \in BOOLEAN : AvailSettled(i, ok)
  \/ \E i \in 1..Len(tasks), ok \in BOOLEAN : WriteSettled(i, ok)
  \/ \E i \in 1..Len(tasks), ok \in BOOLEAN, r \in {<< >>} \cup {<< v >> : v \in BatteryReports} :
        BatterySettled(i, ok, r)
  \/ Tick
  \/ Rebase

(* The await of the call suspended longest settles. *)
SettleOldest ==
  /\ tasks # << >>
  /\ \/ \E ok \in BOOLEAN : AvailSettled(1, ok)
     \/ \E ok \in BOOLEAN : WriteSettled(1, ok)
     \/ \E ok \in BOOLEAN, r \in {<< >>} \cup {<< v >> : v \in BatteryReports} :
          BatterySettled(1, ok, r)

(* Every await settles in the end: the platform's calls resolve or time
   out. *)
SpecAwake == InitAwake /\ [][NextAwake]_vars /\ WF_vars(SettleOldest)

----------------------------------------------------------------------------
(* The platform around one device: restarts of the app and the node's flag *)

(* The app restarts: the device instance is made anew, with the fields of a
   new instance and no call suspended; the platform keeps the settings, the
   capability values and the availability, and reports no first init at the
   attach that follows. *)
Restart ==
  /\ attached
  /\ attached' = FALSE
  /\ tuyaCluster' = FALSE
  /\ endpoint1' = FALSE
  /\ rawHandler' = FALSE
  /\ lastSoilMoisturePercent' = << >>
  /\ pendingSettingsApply' = FALSE
  /\ lastWakeHandledAt' = 0
  /\ tasks' = << >>
  /\ node' = [node EXCEPT !.firstInit = FALSE]
  /\ ev' = Event("restart", FALSE, FALSE, Idle)
  /\ out' = << >>
  /\ UNCHANGED << now, settings, caps, available, extLeft, attachLog, call >>

(* The node's receiveWhenIdle changes while the device is attached. *)
ReceiveWhenIdleChanges ==
  /\ attached
  /\ node' = [node EXCEPT !.receiveWhenIdle = ~node.receiveWhenIdle]
  /\ ev' = Event("receiveWhenIdle", FALSE, FALSE, Idle)
  /\ out' = << >>
  /\ UNCHANGED << now, settings, attached, tuyaCluster, endpoint1, rawHandler,
                  lastSoilMoisturePercent, pendingSettingsApply, lastWakeHandledAt,
                  caps, available, tasks, extLeft, attachLog, call >>

(* Attaches, settings changes and the awaits they leave, with no wake signal
   of the device's own and no time passing. *)
NextPlatform ==
  \/ OnNodeInit
  \/ Restart
  \/ ReceiveWhenIdleChanges
  \/ \E change \in SettingsChanges : OnSettings(change)
  \/ \E i \in 1..Len(tasks) : MagicSettled(i)
  \/ \E i \in 1..Len(tasks), ok \in BOOLEAN : AvailSettled(i, ok)
  \/ \E i \in 1..Len(tasks), ok \in BOOLEAN : WriteSettled(i, ok)
  \/ \E i \in 1..Len(tasks), ok \in BOOLEAN, r \in {<< >>} \cup {<< v >> : v \in BatteryReports} :
        BatterySettled(i, ok, r)

SpecPlatform == Init /\ [][NextPlatform]_vars

----------------------------------------------------------------------------
(* The decoder called on its own, as the tests call it *)

(* The longest frame of bytes drawn from FrameBytes. *)
MaxFrameLen == 13

(* 0 and the manufacturer-specific bit of the frame control: with them a
   frame has either header, and an entry declares 0, 4 or more than 1000
   bytes. *)
FrameBytes == {0, 4}

Frames ==
  UNION {[1..n -> FrameBytes] : n \in 0..MaxFrameLen}
    \cup ReportFrames \cup {DefaultResponseFrame}

(* The device while a function is called on its own: a device instance
   that was made and not attached. *)
Unattached ==
  /\ now = DEBOUNCE_MS
  /\ node = [receiveWhenIdle |-> FALSE, firstInit |-> FALSE, hasEndpoint1 |-> TRUE,
             hasTuya |-> TRUE, hasPowerCfg |-> TRUE]
  /\ settings = InitialSettings
  /\ attached = FALSE
  /\ tuyaCluster = FALSE
  /\ endpoint1 = FALSE
  /\ rawHandler = FALSE
  /\ lastSoilMoisturePercent = << >>
  /\ pendingSettingsApply = FALSE
  /\ lastWakeHandledAt = 0
  /\ caps = NoCapabilities
  /\ available = FALSE
  /\ tasks = << >>
  /\ extLeft = 0
  /\ ev = Event("new", FALSE, FALSE, Idle)
  /\ out = << >>
  /\ attachLog = NeverAttached

(* A call of fn with args that has not run yet. *)
Call(fn, args) == [fn |-> fn, args |-> args, done |-> FALSE, result |-> << >>]

(* decodeTuyaDpValuesFromZclFrame(frame) is called and returns. *)
CallDecode ==
  /\ call.fn = "decodeTuyaDpValuesFromZclFrame" /\ ~call.done
  /\ call' = [call EXCEPT !.done = TRUE,
                          !.result = decodeTuyaDpValuesFromZclFrame(call.args[1])]
  /\ ev' = Event("call", FALSE, TRUE, Idle)
  /\ UNCHANGED << now, node, settings, attached, tuyaCluster, endpoint1, rawHandler,
                  lastSoilMoisturePercent, pendingSettingsApply, lastWakeHandledAt,
                  caps, available, tasks, extLeft, out, attachLog >>

InitDecode ==
  /\ Unattached
  /\ call \in {Call("decodeTuyaDpValuesFromZclFrame", << frame >>) : frame \in Frames}

SpecDecode == InitDecode /\ [][CallDecode]_vars

(* The entry builder of the decoder's test: [id][typeTag][length, 2 bytes
   big-endian][payload]. *)
EncodeEntry(e) ==
  << e.dp, e.datatype, Len(e.data) \div 256, Len(e.data) % 256 >> \o e.data

RECURSIVE EncodeEntries(_)
EncodeEntries(es) ==
  IF es = << >> THEN << >> ELSE EncodeEntry(Head(es)) \o EncodeEntries(Tail(es))

(* The most entries of a frame that is built from entries, and the longest
   payload of an entry. *)
MaxEntries == 2
MaxDataLen == 2

EntryData == UNION {[1..n -> {0, 255}] : n \in 0..MaxDataLen}

Entries == [dp : {107}, datatype : {DT_BOOL, DT_VALUE}, data : EntryData]

EntryLists == UNION {[1..n -> Entries] : n \in 0..MaxEntries}

(* The two ZCL headers: frame control, sequence number, command, and the
   manufacturer-specific header of the test. *)
Headers == { << 1, 1, 2 >>, << 5, 17, 34, 1, 2 >> }

(* The frame of the test: header, status, transaction id, entries. *)
EncodeFrame(header, status, transid, es) ==
  header \o << status, transid >> \o EncodeEntries(es)

(* The decoder is called with a valid frame; the entries the frame was built
   from go with the call as its second argument, which the decoder does not
   see. *)
InitRoundTrip ==
  /\ Unattached
  /\ call \in {Call("decodeTuyaDpValuesFromZclFrame",
                    << EncodeFrame(header, 0, 16, es), es >>) :
                 header \in Headers, es \in EntryLists}

SpecRoundTrip == InitRoundTrip /\ [][CallDecode]_vars

----------------------------------------------------------------------------
(* The two inbound paths of datapoints called on their own *)

(* The entries of the reports: soil moisture (107), temperature (101) and an
   identifier the table does not know, each with an empty payload or with 54
   in two bytes. *)
DpEntries ==
  [dp : {101, 107, 200}, datatype : {DT_BOOL, DT_VALUE}, data : {<< >>, << 0, 54 >>}]

DpEntryLists == UNION {[1..n -> DpEntries] : n \in 0..MaxEntries}

(* What the reporting, response and datapoint events of the cluster carry. *)
Reports ==
  {<< >>} \cup
  { << [dp |-> dp, datatype |-> datatype, data |-> data] >> :
      dp \in {<< >>, << 107 >>, << 200 >>},
      datatype \in {<< >>, << DT_VALUE >>},
      data \in {ReportData("undefined", 0), ReportData("number", 0),
                ReportData("number", 54), ReportData("buffer", << >>),
                ReportData("buffer", << 0, 54 >>)} }

(* Whether the call returned or threw, and what it threw to. *)
Returned(st) == [threw |-> st.threw]

(* parseRawTuyaFrame(frame) is called on the device and returns. *)
CallParseRawTuyaFrame ==
  /\ call.fn = "parseRawTuyaFrame" /\ ~call.done
  /\ LET st == parseRawTuyaFrame(call.args[1], settings["soil_warning"],
                                 DpState(lastSoilMoisturePercent, caps))
     IN /\ lastSoilMoisturePercent' = st.last
        /\ caps' = st.caps
        /\ call' = [call EXCEPT !.done = TRUE, !.result = Returned(st)]
  /\ ev' = Event("call", FALSE, TRUE, Idle)
  /\ UNCHANGED << now, node, settings, attached, tuyaCluster, endpoint1, rawHandler,
                  pendingSettingsApply, lastWakeHandledAt, available, tasks,
                  extLeft, out, attachLog >>

(* A listener of the cluster's events calls processTuyaReport(args). *)
CallProcessTuyaReport ==
  /\ call.fn = "processTuyaReport" /\ ~call.done
  /\ LET st == processTuyaReport(call.args[1], settings["soil_warning"],
                                 DpState(lastSoilMoisturePercent, caps))
     IN /\ lastSoilMoisturePercent' = st.last
        /\ caps' = st.caps
        /\ call' = [call EXCEPT !.done = TRUE, !.result = Returned(st)]
  /\ ev' = Event("call", FALSE, TRUE, Idle)
  /\ UNCHANGED << now, node, settings, attached, tuyaCluster, endpoint1, rawHandler,
                  pendingSettingsApply, lastWakeHandledAt, available, tasks,
                  extLeft, out, attachLog >>

InitDatapoints ==
  /\ Unattached
  /\ call \in {Call("parseRawTuyaFrame", << EncodeFrame(header, 0, 16, es), es >>) :
                 header \in Headers, es \in DpEntryLists}
              \cup {Call("processTuyaReport", << args >>) : args \in Reports}

NextDatapoints ==
  \/ CallParseRawTuyaFrame
  \/ CallProcessTuyaReport

SpecDatapoints == InitDatapoints /\ [][NextDatapoints]_vars

----------------------------------------------------------------------------
(* The value pipeline: processDataPoint called on a device that has
   processed datapoints before, with the settings the user has stored *)

(* The identifiers of every handler of the table, both of each alias pair,
   and one the table does not have. *)
PipelineDps == {1, 14, 3, 107, 5, 101, 15, 108, 109, 110, 200}

(* Payloads of 0, 1, 2 and 4 bytes: 0, 1, 54, 255; 54, -5, 200; 253, 54, -5
   and 300. *)
Payloads ==
  { << >>, << 0 >>, << 1 >>, << 54 >>, << 255 >>,
    << 0, 54 >>, << 255, 251 >>, << 0, 200 >>,
    << 0, 0, 0, 253 >>, << 0, 0, 0, 54 >>, << 255, 255, 255, 251 >>, << 0, 0, 1, 44 >> }

(* What the device processed before the call: nothing, a soil moisture of
   54 % or one of 20 %. *)
PriorEntries ==
  { << >>,
    << [dp |-> 107, datatype |-> DT_VALUE, data |-> << 0, 54 >>] >>,
    << [dp |-> 3, datatype |-> DT_VALUE, data |-> << 0, 20 >>] >> }

(* The stored settings: the defaults, or a threshold of 70 % and calibration
   offsets of 5 % for soil moisture and humidity. *)
PipelineSettings ==
  { InitialSettings,
    [InitialSettings EXCEPT !["soil_warning"] = 70 * Scale,
                            !["soil_calibration"] = 5 * Scale,
                            !["humidity_calibration"] = 5 * Scale] }

(* The numbers clampPercent is called with: -10 to 210 in steps of a half. *)
ClampInputs == {k * (Scale \div 2) : k \in -20..420}

(* processDataPoint(dp, datatype, data) is called and returns or throws. *)
CallProcessDataPoint ==
  /\ call.fn = "processDataPoint" /\ ~call.done
  /\ LET st == processDataPoint(call.args[1], call.args[2], call.args[3],
                                settings["soil_warning"],
                                DpState(lastSoilMoisturePercent, caps))
     IN /\ lastSoilMoisturePercent' = st.last
        /\ caps' = st.caps
        /\ call' = [call EXCEPT !.done = TRUE, !.result = Returned(st)]
  /\ ev' = Event("call", FALSE, TRUE, Idle)
  /\ UNCHANGED << now, node, settings, attached, tuyaCluster, endpoint1, rawHandler,
                  pendingSettingsApply, lastWakeHandledAt, available, tasks,
                  extLeft, out, attachLog >>

(* clampPercent(value) is called and returns. *)
CallClampPercent ==
  /\ call.fn = "clampPercent" /\ ~call.done
  /\ call' = [call EXCEPT !.done = TRUE, !.result = clampPercent(call.args[1])]
  /\ ev' = Event("call", FALSE, TRUE, Idle)
  /\ UNCHANGED << now, node, settings, attached, tuyaCluster, endpoint1, rawHandler,
                  lastSoilMoisturePercent, pendingSettingsApply, lastWakeHandledAt,
                  caps, available, tasks, extLeft, out, attachLog >>

InitPipeline ==
  /\ now = DEBOUNCE_MS
  /\ node = [receiveWhenIdle |-> FALSE, firstInit |-> FALSE, hasEndpoint1 |-> TRUE,
             hasTuya |-> TRUE, hasPowerCfg |-> TRUE]
  /\ settings \in PipelineSettings
  /\ attached = FALSE
  /\ tuyaCluster = FALSE
  /\ endpoint1 = FALSE
  /\ rawHandler = FALSE
  /\ \E prior \in PriorEntries :
       LET st == ProcessEntries(prior, settings["soil_warning"],
                                DpState(<< >>, NoCapabilities))
       IN lastSoilMoisturePercent = st.last /\ caps = st.caps
  /\ pendingSettingsApply = FALSE
  /\ lastWakeHandledAt = 0
  /\ available = FALSE
  /\ tasks = << >>
  /\ extLeft = 0
  /\ ev = Event("new", FALSE, FALSE, Idle)
  /\ out = << >>
  /\ attachLog = NeverAttached
  /\ call \in {Call("processDataPoint", << dp, datatype, data >>) :
                 dp \in PipelineDps, datatype \in DT_RAW..DT_BITMAP, data \in Payloads}
              \cup {Call("parseRawTuyaFrame",
                         << frame, decodeTuyaDpValuesFromZclFrame(frame).dpValues >>) :
                      frame \in ReportFrames}
              \cup {Call("clampPercent", << value >>) : value \in ClampInputs}

NextPipeline ==
  \/ CallProcessDataPoint
  \/ CallParseRawTuyaFrame
  \/ CallClampPercent

SpecPipeline == InitPipeline /\ [][NextPipeline]_vars

----------------------------------------------------------------------------
(* Reports and settings changes of an attached device, sleepy or always-on,
   with no time passing *)

(* A node with endpoint 1 and no power configuration cluster, attached
   after a restart of the app. *)
InitAlarm ==
  /\ Init
  /\ node.hasEndpoint1 /\ ~node.hasPowerCfg /\ ~node.firstInit

NextAlarm ==
  \/ OnNodeInit
  \/ ReportArrives
  \/ \E change \in SettingsChanges : OnSettings(change)
  \/ \E i \in 1..Len(tasks), ok \in BOOLEAN : AvailSettled(i, ok)
  \/ \E i \in 1..Len(tasks), ok \in BOOLEAN : WriteSettled(i, ok)

SpecAlarm == InitAlarm /\ [][NextAlarm]_vars

----------------------------------------------------------------------------
(* Settings writes, at once and on wake, with stored settings of every kind *)

(* What a setting may hold: nothing, NaN, numbers far outside every range,
   the fractions 1.5 and -0.5, and 4, which only the sampling intervals
   exclude. *)
WildValues ==
  {Undefined, NaN, -999 * Scale, 999999 * Scale, 3 * (Scale \div 2), -(Scale \div 2),
   4 * Scale}

WildSettings ==
  {InitialSettings} \cup {[k \in SettingKeys |-> v] : v \in WildValues}

(* The user changes one setting to any of these values, or two at once;
   SpecWrites lets the user change the settings held at attach. *)
WildSettingsChanges ==
  { [changedKeys |-> << key >>, values |-> [k \in {key} |-> v]] :
      key \in SettingKeys, v \in WildValues }
    \cup
  { [changedKeys |-> << "soil_sampling", "humidity_calibration" >>,
     values |-> [k \in {"soil_sampling", "humidity_calibration"} |-> v]] :
      v \in WildValues }

(* A node with endpoint 1 and the Tuya cluster, without the power
   configuration cluster, attached after a restart of the app. *)
InitWrites ==
  /\ now = DEBOUNCE_MS
  /\ node \in {n \in NodeConfigs :
                 n.hasEndpoint1 /\ n.hasTuya /\ ~n.hasPowerCfg /\ ~n.firstInit}
  /\ settings \in WildSettings
  /\ attached = FALSE
  /\ tuyaCluster = FALSE
  /\ endpoint1 = FALSE
  /\ rawHandler = FALSE
  /\ lastSoilMoisturePercent = << >>
  /\ pendingSettingsApply = FALSE
  /\ lastWakeHandledAt = 0
  /\ caps = NoCapabilities
  /\ available = FALSE
  /\ tasks = << >>
  /\ extLeft = 1
  /\ ev = Event("new", FALSE, FALSE, Idle)
  /\ out = << >>
  /\ attachLog = NeverAttached
  /\ call = NoCall

NextWrites ==
  \/ OnNodeInit
  \/ OnEndDeviceAnnounce
  \/ \E change \in WildSettingsChanges : settings \in WildSettings /\ OnSettings(change)
  \/ \E i \in 1..Len(tasks), ok \in BOOLEAN : AvailSettled(i, ok)
  \/ \E i \in 1..Len(tasks), ok \in BOOLEAN : WriteSettled(i, ok)

SpecWrites == InitWrites /\ [][NextWrites]_vars

----------------------------------------------------------------------------
(* The battery read at attach and on wake, with every value of the
   attribute *)

(* batteryPercentageRemaining is an unsigned byte. *)
BatteryAttributeValues == 0..255

(* A node with the power configuration cluster and without the Tuya cluster,
   so that the attach and the wake go straight to the battery read. *)
InitBattery ==
  /\ Init
  /\ node.hasPowerCfg /\ ~node.hasTuya /\ ~node.firstInit

NextBattery ==
  \/ OnNodeInit
  \/ OnEndDeviceAnnounce
  \/ \E i \in 1..Len(tasks), ok \in BOOLEAN : AvailSettled(i, ok)
  \/ \E i \in 1..Len(tasks), ok \in BOOLEAN,
        r \in {<< >>} \cup {<< v >> : v \in BatteryAttributeValues} :
        BatterySettled(i, ok, r)

SpecBattery == InitBattery /\ [][NextBattery]_vars

----------------------------------------------------------------------------
(* The functions of lib/zg303z.ts called on their own, as the tests call
   them *)

(* previous: absent, NaN or a number; dt and tau: absent, negative, 0 or
   positive. *)
EmaPrevious ==
  {JsNumber("undefined", 0), JsNumber("NaN", 0)}
    \cup {JsNumber("number", v * Scale) : v \in {0, 10, 100}}

EmaNext == {v * Scale : v \in {-5, 0, 20, 100}}

EmaSeconds ==
  {JsNumber("undefined", 0)}
    \cup {JsNumber("number", v * Scale) : v \in {-5, 0, 5, 60}}

(* Soil moisture and threshold: 0 to 100 in steps of a half. *)
Percents == {k * (Scale \div 2) : k \in 0..200}

CallEmaUpdate ==
  /\ call.fn = "emaUpdate" /\ ~call.done
  /\ call' = [call EXCEPT !.done = TRUE,
                          !.result = emaUpdate(call.args[1], call.args[2],
                                               call.args[3], call.args[4])]
  /\ ev' = Event("call", FALSE, TRUE, Idle)
  /\ UNCHANGED << now, node, settings, attached, tuyaCluster, endpoint1, rawHandler,
                  lastSoilMoisturePercent, pendingSettingsApply, lastWakeHandledAt,
                  caps, available, tasks, extLeft, out, attachLog >>

CallComputeWaterAlarm ==
  /\ call.fn = "computeWaterAlarmFromSoilMoisture" /\ ~call.done
  /\ call' = [call EXCEPT !.done = TRUE,
                          !.result = computeWaterAlarmFromSoilMoisture(call.args[1],
                                                                       call.args[2])]
  /\ ev' = Event("call", FALSE, TRUE, Idle)
  /\ UNCHANGED << now, node, settings, attached, tuyaCluster, endpoint1, rawHandler,
                  lastSoilMoisturePercent, pendingSettingsApply, lastWakeHandledAt,
                  caps, available, tasks, extLeft, out, attachLog >>

InitLib ==
  /\ Unattached
  /\ call \in {Call("emaUpdate", << previous, next, dt, tau >>) :
                 previous \in EmaPrevious, next \in EmaNext,
                 dt \in EmaSeconds, tau \in EmaSeconds}
              \cup {Call("computeWaterAlarmFromSoilMoisture", << soil, threshold >>) :
                      soil \in Percents, threshold \in Percents}

NextLib ==
  \/ CallEmaUpdate
  \/ CallComputeWaterAlarm

SpecLib == InitLib /\ [][NextLib]_vars

----------------------------------------------------------------------------
(* parseDpValue called on its own *)

(* The longest payload parseDpValue is called with. *)
MaxValueLen == 5

(* The bytes around the sign: the least and the greatest byte, and the two
   at which the sign bit turns. *)
ValueBytes == {0, 127, 128, 255}

ValueData == UNION {[1..n -> ValueBytes] : n \in 0..MaxValueLen}

(* parseDpValue(datatype, data) is called and returns or throws. *)
CallParseDpValue ==
  /\ call.fn = "parseDpValue" /\ ~call.done
  /\ call' = [call EXCEPT !.done = TRUE,
                          !.result = parseDpValue(call.args[1], call.args[2])]
  /\ ev' = Event("call", FALSE, TRUE, Idle)
  /\ UNCHANGED << now, node, settings, attached, tuyaCluster, endpoint1, rawHandler,
                  lastSoilMoisturePercent, pendingSettingsApply, lastWakeHandledAt,
                  caps, available, tasks, extLeft, out, attachLog >>

InitValues ==
  /\ Unattached
  /\ call \in {Call("parseDpValue", << datatype, data >>) :
                 datatype \in DT_RAW..DT_BITMAP, data \in ValueData}

SpecValues == InitValues /\ [][CallParseDpValue]_vars

----------------------------------------------------------------------------
(* What the claims speak of *)

(* The step was a wake event of its own: an announce or a frame the device
   sent unasked. *)
WakeEvent(e) == e.op \in {"announce", "frame"}

(* The wake handlers that wait for setAvailable: a handled wake event adds
   one. *)
Handlings(ts) ==
  Cardinality({j \in 1..Len(ts) : ts[j].kind = "wake" /\ ts[j].pc = "avail"})

(* The step ended the applyDeviceSettings call of a wake handler. *)
ApplyEnded(e, reqs) ==
  e.op = "writeSettled" /\ e.task.kind = "wake" /\ Writes(reqs) = 0

(* The wake handlers that wait for a settings write. *)
Applying(ts) == {j \in 1..Len(ts) : ts[j].kind = "wake" /\ ts[j].pc = "write"}

----------------------------------------------------------------------------
(* Lifecycle *)

(* C3: on a sleepy device onSettings sends no datapoint write, whatever keys
   changed, starts no call that would send one, and leaves
   pendingSettingsApply true. *)
C3_SleepyOnSettingsQueues ==
  (ev.op = "onSettings" /\ node.receiveWhenIdle = FALSE) =>
     /\ out = << >>
     /\ pendingSettingsApply
     /\ \A j \in 1..Len(tasks) : tasks[j].kind # "settings"

(* A sleepy device with its Tuya cluster at hand took a change of two keys. *)
C3_Witness ==
  /\ ev.op = "onSettings" /\ node.receiveWhenIdle = FALSE /\ tuyaCluster
  /\ settings["temperature_sampling"] # InitialSettings["temperature_sampling"]
  /\ settings["temperature_calibration"] # InitialSettings["temperature_calibration"]
  /\ pendingSettingsApply

(* C4: a wake event is handled only when DEBOUNCE_MS or more have passed
   since the wake event handled last, whose time lastWakeHandledAt holds: it
   becomes the time of each handled event and changes at no other step. So
   any two handled wake events are at least 5000 ms apart, and of two wake
   events less than that apart only one is handled. *)
C4_HandledWakesApart ==
  [][ IF Handlings(tasks') > Handlings(tasks)
      THEN now - lastWakeHandledAt >= DEBOUNCE_MS /\ lastWakeHandledAt' = now
      ELSE lastWakeHandledAt' = lastWakeHandledAt ]_vars

(* A wake event half a window after a handled one was not handled. *)
C4_Witness ==
  /\ WakeEvent(ev) /\ ~ev.handled
  /\ lastWakeHandledAt >= DEBOUNCE_MS
  /\ now - lastWakeHandledAt = TickMs

(* C5: a wake event inside the debounce window leaves pendingSettingsApply,
   lastWakeHandledAt, the availability and the suspended calls as they are
   and sends no request; the answer to a write that arrives inside the window
   starts no wake handling either. *)
C5_DebouncedWakeIgnored ==
  [][ now - lastWakeHandledAt < DEBOUNCE_MS =>
        /\ WakeEvent(ev') =>
             /\ pendingSettingsApply' = pendingSettingsApply
             /\ lastWakeHandledAt' = lastWakeHandledAt
             /\ available' = available
             /\ tasks' = tasks
             /\ out' = << >>
        /\ (ev'.op = "writeSettled" /\ ev'.ok) =>
             /\ lastWakeHandledAt' = lastWakeHandledAt
             /\ available' = available
             /\ Handlings(tasks') = Handlings(tasks) ]_vars

(* A wake event fell inside the window while a change was queued and no
   handler was there to apply it. *)
C5_Witness ==
  /\ WakeEvent(ev) /\ ~ev.handled
  /\ now - lastWakeHandledAt < DEBOUNCE_MS
  /\ pendingSettingsApply /\ tuyaCluster
  /\ tasks = << >>

(* C6: the attach of a sleepy device sends nothing to the device, neither
   the magic packet nor a settings write nor a battery read, whether the
   platform reports a first init or not, and leaves pendingSettingsApply as
   it is. *)
C6_SleepyAttachSilent ==
  [][ (node.receiveWhenIdle = FALSE /\ ev'.op \in {"onNodeInit", "magicSettled"}) =>
        (out' = << >> /\ pendingSettingsApply' = pendingSettingsApply) ]_vars

(* C9: pendingSettingsApply goes from true to false only in the step that
   ends the applyDeviceSettings call of a wake handler, a call that has sent
   at least one settings write. *)
C9_ClearedOnlyAfterWrite ==
  [][ (pendingSettingsApply /\ ~pendingSettingsApply') =>
        (ApplyEnded(ev', out') /\ ev'.task.idx >= 1) ]_vars

(* C1: no queued change is lost. When a wake handler has sent its whole
   payload, every write of it acknowledged, and pendingSettingsApply is
   false after it, the payload it sent is that of the settings as they are
   now. *)
C1_NoQueuedChangeLost ==
  (/\ ApplyEnded(ev, out) /\ ev.ok
   /\ ev.task.idx = Len(ev.task.payload)
   /\ ~pendingSettingsApply)
  => ev.task.payload = SettingsPayload(settings)

(* C2: a wake handler that finds pendingSettingsApply true, with the Tuya
   cluster at hand, starts the settings payload and ends its apply only
   after the last of the seven writes, with pendingSettingsApply false; a
   handler that finds it false sends no settings write. *)
C2_FullPayloadThenCleared ==
  [][ /\ (ev'.op = "availSettled" /\ pendingSettingsApply /\ tuyaCluster) =>
           out' = << SettingsPayload(settings)[1] >>
      /\ (ev'.op = "availSettled" /\ ~pendingSettingsApply) => Writes(out') = 0
      /\ ApplyEnded(ev', out') =>
           (ev'.task.idx = Len(ev'.task.payload) /\ ~pendingSettingsApply') ]_vars

(* C8: the payload of one queued change is sent once. No two wake handlers
   are sending the same payload at a time. *)
C8_NoDuplicateApply ==
  \A i, j \in Applying(tasks) : i # j => tasks[i].payload # tasks[j].payload

(* C10: a rejected write is not sent again. The step in which a write is
   rejected sends no write of the same datapoint; when the write was that of
   a wake handler, the step sends no write at all and leaves
   pendingSettingsApply false. A wake handler that finds the flag false
   sends no settings write. *)
C10_FailedWriteNotRetried ==
  [][ /\ (ev'.op = "writeSettled" /\ ~ev'.ok) =>
           /\ \A k \in 1..Len(out') :
                out'[k].req = "write" => out'[k].dp # ev'.task.payload[ev'.task.idx].dp
           /\ ev'.task.kind = "wake" => (Writes(out') = 0 /\ ~pendingSettingsApply')
      /\ (ev'.op = "availSettled" /\ ~pendingSettingsApply) => Writes(out') = 0 ]_vars

(* The first write of a wake handler's payload was rejected: the handler
   went on to the battery read with the flag cleared. *)
C10_Witness ==
  /\ ev.op = "writeSettled" /\ ~ev.ok /\ ev.task.kind = "wake"
  /\ ev.task.idx = 1
  /\ out = << ReadBatteryReq >>
  /\ ~pendingSettingsApply

(* C7: a wake handler starts no loop that keeps itself going. With every
   write answered by a frame of the Tuya cluster, no further settings change
   and no frame sent unasked, the handlers come to an end: from some point
   on no call is suspended and nothing is sent. *)
C7_WakeHandlingEnds == <>[](tasks = << >> /\ out = << >>)

(* The answer to a write of a wake handler started another wake handling. *)
C7_Witness ==
  /\ ev.op = "writeSettled" /\ ev.ok /\ ev.handled
  /\ ev.task.kind = "wake"

(* C11: the magic packet is sent only by an attach at which the platform
   reports first init; an attach after a restart of the app sends none, and
   over all attaches of the device at most one is sent. *)
C11_MagicPacketOnFirstInitOnly ==
  [][ /\ (ev'.op = "onNodeInit" /\ ~node.firstInit) =>
           \A k \in 1..Len(out') : out'[k] # MagicPacketReq
      /\ (\E k \in 1..Len(out') : out'[k] = MagicPacketReq) =>
           (ev'.op = "onNodeInit" /\ node.firstInit)
      /\ attachLog'.magicPackets <= 1 ]_vars

(* The device was attached again after a restart: the first attach had sent
   the magic packet, this one sent none. *)
C11_Witness ==
  /\ ev.op = "onNodeInit" /\ endpoint1
  /\ ~node.firstInit
  /\ attachLog.magicPackets = 1
  /\ \A k \in 1..Len(out) : out[k] # MagicPacketReq

(* C12: on an always-on device that has endpoint 1 and the Tuya cluster,
   onSettings sends the datapoint write of the first changed key at once and
   queues nothing. *)
C12_AlwaysOnSendsAtOnce ==
  [][ (/\ ev'.op = "onSettings"
       /\ node.receiveWhenIdle /\ node.hasEndpoint1 /\ node.hasTuya) =>
        (Writes(out') = 1 /\ pendingSettingsApply' = pendingSettingsApply) ]_vars

(* C13: onSettings follows the mode that onNodeInit found at the attach:
   found sleepy, it sends nothing and queues the change; found always-on, it
   queues nothing. *)
C13_ModeFixedAtAttach ==
  [][ ev'.op = "onSettings" =>
        /\ attachLog.isSleepy = << TRUE >> => (out' = << >> /\ pendingSettingsApply')
        /\ attachLog.isSleepy = << FALSE >> =>
             pendingSettingsApply' = pendingSettingsApply ]_vars

(* C14: every frame that comes in from the device starts the wake handling
   when the debounce window has passed; so does the answer to the battery
   read, a frame of the power cluster. *)
C14_EveryFrameWakes ==
  [][ (/\ ev'.op \in {"frame", "writeSettled", "batterySettled"}
       /\ ev'.op # "frame" => ev'.ok
       /\ rawHandler
       /\ now - lastWakeHandledAt >= DEBOUNCE_MS) =>
        (ev'.handled /\ lastWakeHandledAt' = now) ]_vars

(* C15: for every byte sequence the decoder returns a decoded frame; its
   entries, encoded again, are the bytes after the header, status and
   transaction id up to an entry that is truncated (fewer than 4 bytes left)
   or declares more bytes than are left; a sequence too short for the header
   and the two bytes after it yields no entries. *)
C15_DecodeReturnsCompleteEntries ==
  (call.fn = "decodeTuyaDpValuesFromZclFrame" /\ call.done) =>
    LET frame == call.args[1]
        r == call.result
        hl == IF frame # << >> /\ (frame[1] \div 4) % 2 = 1 THEN 5 ELSE 3
        body == SubSeq(frame, hl + 3, Len(frame))
        used == EncodeEntries(r.dpValues)
        left == SubSeq(body, Len(used) + 1, Len(body))
    IN /\ DOMAIN r = {"zclHeaderLength", "commandId", "status", "transid", "dpValues"}
       /\ r.dpValues \in Seq([dp : Byte, datatype : Byte, data : Seq(Byte)])
       /\ Len(frame) < hl + 2 => r.dpValues = << >>
       /\ Len(frame) >= hl + 2 =>
            /\ Len(used) <= Len(body)
            /\ used = SubSeq(body, 1, Len(used))
            /\ \/ Len(left) < 4
               \/ left[3] * 256 + left[4] > Len(left) - 4

(* The decoder returned the one complete entry of a frame whose second
   entry declares more bytes than the frame holds. *)
C15_Witness ==
  /\ call.fn = "decodeTuyaDpValuesFromZclFrame" /\ call.done
  /\ Len(call.result.dpValues) = 1
  /\ Len(call.args[1])
       >= call.result.zclHeaderLength + 2 + Len(EncodeEntries(call.result.dpValues)) + 4

(* C16: for a frame that holds the header and two bytes more, the header
   length is 5 when bit 2 of the first byte is set and 3 otherwise, commandId
   is the last byte of the header, status the byte after the header and
   transid the byte after that. *)
C16_HeaderFields ==
  (call.fn = "decodeTuyaDpValuesFromZclFrame" /\ call.done) =>
    LET frame == call.args[1]
        r == call.result
        hl == IF frame # << >> /\ (frame[1] \div 4) % 2 = 1 THEN 5 ELSE 3
    IN Len(frame) >= hl + 2 =>
         /\ r.zclHeaderLength = hl
         /\ r.commandId = frame[hl]
         /\ r.status = << frame[hl + 1] >>
         /\ r.transid = << frame[hl + 2] >>

(* The decoder returned the header fields of the frame of its test, which
   has the manufacturer-specific header and five different bytes around
   the command. *)
C16_Witness ==
  /\ call.fn = "decodeTuyaDpValuesFromZclFrame" /\ call.done
  /\ call.args[1] \in ReportFrames
  /\ call.result.zclHeaderLength = 5
  /\ call.result.commandId = 2
  /\ call.result.status = << 0 >>
  /\ call.result.transid = << 16 >>

(* C17: decoding a valid frame built from N entries yields those N entries
   in the order of the frame, and each decoded entry encoded again as id,
   type tag, length in 2 bytes big-endian and payload gives the bytes of the
   frame after the header, status and transaction id. *)
C17_DecodeEncodeRoundTrip ==
  (call.fn = "decodeTuyaDpValuesFromZclFrame" /\ call.done /\ Len(call.args) = 2) =>
    LET frame == call.args[1]
        es == call.args[2]
        r == call.result
    IN /\ Len(r.dpValues) = Len(es)
       /\ \A i \in 1..Len(es) : r.dpValues[i] = es[i]
       /\ \A i \in 1..Len(es) :
            LET at == r.zclHeaderLength + 2 + Len(EncodeEntries(SubSeq(es, 1, i - 1)))
                bytes == << r.dpValues[i].dp, r.dpValues[i].datatype,
                            Len(r.dpValues[i].data) \div 256,
                            Len(r.dpValues[i].data) % 256 >> \o r.dpValues[i].data
            IN bytes = SubSeq(frame, at + 1, at + Len(bytes))

(* The decoder returned the two different entries of a valid frame with the
   manufacturer-specific header. *)
C17_Witness ==
  /\ call.fn = "decodeTuyaDpValuesFromZclFrame" /\ call.done /\ Len(call.args) = 2
  /\ call.result.zclHeaderLength = 5
  /\ Len(call.result.dpValues) = 2
  /\ call.result.dpValues[1] # call.result.dpValues[2]
  /\ call.result.dpValues[1].data # << >>

(* C18: an entry with a known identifier and an empty payload is skipped and
   the entries after it are processed: after parseRawTuyaFrame the published
   values are those of the frame without such entries. *)
C18_EntryFailureContained ==
  (call.fn = "parseRawTuyaFrame" /\ call.done) =>
    LET es == call.args[2]
        Decodes(e) == ~(e.dp \in DOMAIN DP_HANDLERS /\ e.data = << >>)
        good == ProcessEntries(SelectSeq(es, Decodes), settings["soil_warning"],
                               DpState(<< >>, NoCapabilities))
    IN /\ caps = good.caps
       /\ lastSoilMoisturePercent = good.last

(* C19: processTuyaReport returns without throwing for every report of the
   cluster's events. *)
C19_NoFailureEscapesReport ==
  (call.fn = "processTuyaReport" /\ call.done) => ~call.result.threw

(* C20: for type tag 2 the value is the signed big-endian integer of the
   leading bytes of the payload: of 4 bytes when it has 4 or more, of 2 when
   it has 2 or 3, of 1 when it has 1. *)
C20_ValueIsSignedBigEndian ==
  (call.fn = "parseDpValue" /\ call.done /\ call.args[1] = DT_VALUE
     /\ call.args[2] # << >>) =>
    LET data == call.args[2]
        top == IF data[1] >= 128 THEN data[1] - 256 ELSE data[1]
    IN call.result =
         [t |-> "number",
          v |-> IF Len(data) >= 4
                THEN ((top * 256 + data[2]) * 256 + data[3]) * 256 + data[4]
                ELSE IF Len(data) >= 2 THEN top * 256 + data[2]
                ELSE top]

(* C21: an entry whose identifier the dispatch table does not have throws
   nothing and changes nothing, whatever its type tag and payload, and the
   entries around it are processed as if it were not there: a frame gives
   the published values and the last soil moisture of the same frame
   without those entries, and a report of such an identifier returns and
   leaves the device as it was. *)
C21_UnknownIdentifierIgnored ==
  /\ (call.fn = "parseRawTuyaFrame" /\ call.done) =>
       LET es == call.args[2]
           InTable(e) == e.dp \in {1, 3, 5, 14, 15, 101, 102, 104, 105, 106, 107,
                                   108, 109, 110, 111, 112}
           without == ProcessEntries(SelectSeq(es, InTable), settings["soil_warning"],
                                     DpState(<< >>, NoCapabilities))
       IN /\ ~call.result.threw
          /\ caps = without.caps
          /\ lastSoilMoisturePercent = without.last
  /\ (/\ call.fn = "processTuyaReport" /\ call.done
      /\ call.args[1] # << >> /\ call.args[1][1].dp = << 200 >>) =>
       /\ ~call.result.threw
       /\ caps = NoCapabilities
       /\ lastSoilMoisturePercent = << >>

(* A frame was processed whose first entry has an unknown identifier and an
   empty payload and whose second entry published the soil moisture. *)
C21_Witness ==
  /\ call.fn = "parseRawTuyaFrame" /\ call.done
  /\ Len(call.args[2]) = 2
  /\ call.args[2][1].dp = 200 /\ call.args[2][1].data = << >>
  /\ call.args[2][2].dp = 107
  /\ caps.measure_soil_moisture = << 54 * Scale >>

(* C22: an entry processed under one identifier of an alias pair (3 and 107,
   5 and 101, 15 and 108, 1 and 14) leaves the published values and the last
   soil moisture that the same entry under the other identifier leaves from
   the same device state, and throws when the other throws. *)
C22_AliasesEquivalent ==
  [][ (call'.fn = "processDataPoint" /\ call'.done /\ ~call.done) =>
        LET dp == call.args[1]
            other == CASE dp = 3 -> 107 [] dp = 107 -> 3
                       [] dp = 5 -> 101 [] dp = 101 -> 5
                       [] dp = 15 -> 108 [] dp = 108 -> 15
                       [] dp = 1 -> 14 [] dp = 14 -> 1
                       [] OTHER -> dp
            st == processDataPoint(other, call.args[2], call.args[3],
                                   settings["soil_warning"],
                                   DpState(lastSoilMoisturePercent, caps))
        IN /\ caps' = st.caps
           /\ lastSoilMoisturePercent' = st.last
           /\ call'.result.threw = st.threw ]_vars

(* The legacy battery identifier 15 published a battery level on a device
   that had processed a soil moisture before. *)
C22_Witness ==
  /\ call.fn = "processDataPoint" /\ call.done
  /\ call.args[1] = 15 /\ call.args[2] = DT_VALUE
  /\ caps.measure_battery = << 54 * Scale >>
  /\ lastSoilMoisturePercent # << >>

(* C23: a temperature entry (5 or 101) whose payload is the integer r
   publishes r tenths of a degree, the division by 10 done once; a soil
   moisture entry (3 or 107) whose payload is an integer within 0..100
   publishes that integer; the frame with soil moisture 54 and temperature
   253 publishes 54 % and 25.3 degrees. *)
C23_RawToPublished ==
  /\ (call.fn = "processDataPoint" /\ call.done /\ call.args[2] = DT_VALUE
        /\ Len(call.args[3]) \in {2, 4}) =>
       LET data == call.args[3]
           top == IF data[1] >= 128 THEN data[1] - 256 ELSE data[1]
           r == IF Len(data) = 4
                THEN ((top * 256 + data[2]) * 256 + data[3]) * 256 + data[4]
                ELSE top * 256 + data[2]
       IN /\ call.args[1] \in {5, 101} =>
               /\ caps.measure_temperature # << >>
               /\ caps.measure_temperature[1] * 10 = r * Scale
          /\ (call.args[1] \in {3, 107} /\ r \in 0..100) =>
               caps.measure_soil_moisture = << r * Scale >>
  /\ (call.fn = "parseRawTuyaFrame" /\ call.done /\ call.args[1] \in ReportFrames) =>
       /\ caps.measure_soil_moisture = << 54 * Scale >>
       /\ caps.measure_temperature = << 25 * Scale + 3 * (Scale \div 10) >>

(* The frame of the test was processed and both of its values published. *)
C23_Witness ==
  /\ call.fn = "parseRawTuyaFrame" /\ call.done /\ call.args[1] \in ReportFrames
  /\ Len(call.args[2]) = 2
  /\ caps.measure_soil_moisture # << >>
  /\ caps.measure_temperature # << >>

(* C24: clampPercent returns a number within 0..100 that it maps to itself,
   0 for -5, 100 for 200 and its argument when that is within 0..100; and
   the soil moisture, humidity and battery published from datapoints and
   the last soil moisture kept are within 0..100. *)
C24_PercentagesWithinRange ==
  /\ (call.fn = "clampPercent" /\ call.done) =>
       LET value == call.args[1] IN
       /\ call.result >= 0 /\ call.result <= 100 * Scale
       /\ clampPercent(call.result) = call.result
       /\ (value >= 0 /\ value <= 100 * Scale) => call.result = value
       /\ value = -5 * Scale => call.result = 0
       /\ value = 200 * Scale => call.result = 100 * Scale
  /\ \A published \in {caps.measure_soil_moisture, caps.measure_humidity,
                        caps.measure_battery, lastSoilMoisturePercent} :
       published # << >> => (published[1] >= 0 /\ published[1] <= 100 * Scale)

(* The humidity entry of raw value 300 published 100, or the battery entry
   of raw value -5 published 0. *)
C24_Witness ==
  \/ /\ call.fn = "processDataPoint" /\ call.done
     /\ call.args = << 109, DT_VALUE, << 0, 0, 1, 44 >> >>
     /\ caps.measure_humidity = << 100 * Scale >>
  \/ /\ call.fn = "processDataPoint" /\ call.done
     /\ call.args = << 108, DT_VALUE, << 255, 251 >> >>
     /\ caps.measure_battery = << 0 >>

(* C25: the battery level published is within 0..100, whether it comes from
   a battery datapoint or from the read of batteryPercentageRemaining at
   attach or on wake. *)
C25_BatteryWithinRange ==
  caps.measure_battery # << >> =>
    (caps.measure_battery[1] >= 0 /\ caps.measure_battery[1] <= 100 * Scale)

(* C26: the soil moisture and the humidity published for an entry of raw
   value raw are clamp(raw + offset, 0, 100), offset being the calibration
   setting of the channel. *)
C26_CalibrationBeforeClamp ==
  (call.fn = "processDataPoint" /\ call.done /\ call.args[2] = DT_VALUE
     /\ Len(call.args[3]) = 2) =>
    LET data == call.args[3]
        raw == ((IF data[1] >= 128 THEN data[1] - 256 ELSE data[1]) * 256 + data[2]) * Scale
        calibrated(offset) == Min2(100 * Scale, Max2(0, raw + offset))
    IN /\ call.args[1] \in {3, 107} =>
            caps.measure_soil_moisture = << calibrated(settings["soil_calibration"]) >>
       /\ call.args[1] = 109 =>
            caps.measure_humidity = << calibrated(settings["humidity_calibration"]) >>

(* C27: emaUpdate returns next itself when previous is no number, when tau
   is 0, negative or absent, and when dt is 0, negative or absent. *)
C27_EmaEdgeCasesReturnNext ==
  (call.fn = "emaUpdate" /\ call.done) =>
    LET previous == call.args[1]
        next == call.args[2]
        dt == call.args[3]
        tau == call.args[4]
        NotPositive(x) == x.kind # "number" \/ x.v <= 0
    IN (previous.kind # "number" \/ NotPositive(tau) \/ NotPositive(dt)) =>
         call.result = [t |-> "number", v |-> next, w |-> next]

(* emaUpdate was called with a previous value, a positive tau and a dt of 0
   and returned next, which is not the previous value. *)
C27_Witness ==
  /\ call.fn = "emaUpdate" /\ call.done
  /\ call.args[1].kind = "number" /\ call.args[1].v # call.args[2]
  /\ call.args[3] = [kind |-> "number", v |-> 0]
  /\ call.args[4].kind = "number" /\ call.args[4].v > 0
  /\ call.result.t = "number" /\ call.result.v = call.args[2]

(* C28: for a soil moisture and a threshold within 0..100 the alarm is
   exactly soil moisture < threshold: true for 69 against 70, false for 70
   against 70 and for 80 against 70. *)
C28_AlarmStrictlyBelowThreshold ==
  (call.fn = "computeWaterAlarmFromSoilMoisture" /\ call.done) =>
    LET soil == call.args[1]
        threshold == call.args[2]
    IN /\ call.result \in BOOLEAN
       /\ call.result <=> soil < threshold
       /\ (soil = 69 * Scale /\ threshold = 70 * Scale) => call.result
       /\ (soil = 70 * Scale /\ threshold = 70 * Scale) => ~call.result
       /\ (soil = 80 * Scale /\ threshold = 70 * Scale) => ~call.result

(* The alarm was computed for a soil moisture equal to the threshold of 70
   and is false. *)
C28_Witness ==
  /\ call.fn = "computeWaterAlarmFromSoilMoisture" /\ call.done
  /\ call.args = << 70 * Scale, 70 * Scale >>
  /\ call.result = FALSE

(* C29: the step in which a call of onSettings that changed the soil-warning
   threshold ends publishes the alarm last soil moisture < new threshold
   when a soil moisture was received before, and leaves the alarm as it is
   when none was; on a sleepy device that step is the call itself, on an
   always-on device it is the settling of the call's last write. *)
C29_ThresholdChangeRecomputesAlarm ==
  [][ (/\ \/ ev'.op = "onSettings" /\ Len(tasks') = Len(tasks)
          \/ ev'.op = "writeSettled" /\ ev'.task.kind = "settings" /\ out' = << >>
       /\ settings'["soil_warning"] # settings["soil_warning"]) =>
        IF lastSoilMoisturePercent # << >>
        THEN caps'.alarm_water =
               << lastSoilMoisturePercent[1] < settings'["soil_warning"] >>
        ELSE caps'.alarm_water = caps.alarm_water ]_vars

(* On an always-on device the last write of onSettings settled and the
   alarm is on: the soil moisture of 54 is below the new threshold of 70. *)
C29_Witness ==
  /\ ev.op = "writeSettled" /\ ev.task.kind = "settings" /\ out = << >>
  /\ node.receiveWhenIdle
  /\ lastSoilMoisturePercent = << 54 * Scale >>
  /\ settings["soil_warning"] = 70 * Scale
  /\ caps.alarm_water = << TRUE >>

(* C30: once a soil moisture was received, the water alarm published is
   last soil moisture < threshold of the stored settings, whatever
   datapoints came in since. *)
C30_AlarmDerivedFromSoilMoisture ==
  lastSoilMoisturePercent # << >> =>
    caps.alarm_water =
      << lastSoilMoisturePercent[1]
           < Min2(100 * Scale, Max2(0, settings["soil_warning"])) >>

(* C31: every datapoint write sent carries a value within the range of its
   datapoint, whatever the settings hold: 102 and 105 within -30..30, 104
   within -20..20, 110 within 0..100, 111 and 112 within 5..3600, 106 is 0
   or 1; in the writes of onSettings and in those of the full payload. *)
C31_WritesWithinRange ==
  \A k \in 1..Len(out) :
    out[k].req = "write" =>
      LET dp == out[k].dp
          val == out[k].val
      IN CASE dp \in {102, 105} -> val >= -30 /\ val <= 30
           [] dp = 104 -> val >= -20 /\ val <= 20
           [] dp = 110 -> val >= 0 /\ val <= 100
           [] dp \in {111, 112} -> val >= 5 /\ val <= 3600
           [] dp = 106 -> val \in {0, 1}
           [] OTHER -> FALSE

(* A wake handling of a sleepy device, on which a change was queued, sends
   the temperature sampling interval of the full payload: 3600 for the
   999999 that is stored. *)
C31_Witness ==
  /\ ev.op = "writeSettled" /\ ev.task.kind = "wake"
  /\ ~node.receiveWhenIdle
  /\ settings["temperature_sampling"] = 999999 * Scale
  /\ out = << [req |-> "write", dp |-> 111, val |-> 3600] >>

----------------------------------------------------------------------------
(* The converters of settings to datapoint values, called on their own *)

(* Offsets in degrees: -3.00 to 3.00 by hundredths, and 99 and -99 of the
   tests. *)
OffsetsC == -(3 * Scale)..(3 * Scale) \cup {99 * Scale, -99 * Scale}

(* Whole percentages around the ranges -30..30 and 0..100, and the 999 and
   -1 of the tests. *)
PercentSettings == {k * Scale : k \in -35..105} \cup {999 * Scale}

(* Whole seconds around the bounds 5 and 3600, and the 1 and 999999 of the
   tests. *)
SecondsSettings ==
  {k * Scale : k \in 0..10} \cup {k * Scale : k \in 3595..3605} \cup {999999 * Scale}

(* Numbers for clampInt to the range 0..10, by tenths, with the 1.2, 1.6, -5
   and 50 of the tests. *)
ClampIntInputs == {k * (Scale \div 10) : k \in -50..150} \cup {50 * Scale}

CallToTuyaTemperatureCalibrationTenths ==
  /\ call.fn = "toTuyaTemperatureCalibrationTenths" /\ ~call.done
  /\ call' = [call EXCEPT !.done = TRUE, !.result = toTuyaTemperatureCalibrationTenths(call.args[1])]
  /\ ev' = Event("call", FALSE, TRUE, Idle)
  /\ UNCHANGED << now, node, settings, attached, tuyaCluster, endpoint1, rawHandler,
                  lastSoilMoisturePercent, pendingSettingsApply, lastWakeHandledAt,
                  caps, available, tasks, extLeft, out, attachLog >>

CallToTuyaPercentCalibration ==
  /\ call.fn = "toTuyaPercentCalibration" /\ ~call.done
  /\ call' = [call EXCEPT !.done = TRUE, !.result = toTuyaPercentCalibration(call.args[1])]
  /\ ev' = Event("call", FALSE, TRUE, Idle)
  /\ UNCHANGED << now, node, settings, attached, tuyaCluster, endpoint1, rawHandler,
                  lastSoilMoisturePercent, pendingSettingsApply, lastWakeHandledAt,
                  caps, available, tasks, extLeft, out, attachLog >>

CallToTuyaSamplingSeconds ==
  /\ call.fn = "toTuyaSamplingSeconds" /\ ~call.done
  /\ call' = [call EXCEPT !.done = TRUE, !.result = toTuyaSamplingSeconds(call.args[1])]
  /\ ev' = Event("call", FALSE, TRUE, Idle)
  /\ UNCHANGED << now, node, settings, attached, tuyaCluster, endpoint1, rawHandler,
                  lastSoilMoisturePercent, pendingSettingsApply, lastWakeHandledAt,
                  caps, available, tasks, extLeft, out, attachLog >>

CallToTuyaSoilWarningThresholdPercent ==
  /\ call.fn = "toTuyaSoilWarningThresholdPercent" /\ ~call.done
  /\ call' = [call EXCEPT !.done = TRUE, !.result = toTuyaSoilWarningThresholdPercent(call.args[1])]
  /\ ev' = Event("call", FALSE, TRUE, Idle)
  /\ UNCHANGED << now, node, settings, attached, tuyaCluster, endpoint1, rawHandler,
                  lastSoilMoisturePercent, pendingSettingsApply, lastWakeHandledAt,
                  caps, available, tasks, extLeft, out, attachLog >>

CallClampInt ==
  /\ call.fn = "clampInt" /\ ~call.done
  /\ call' = [call EXCEPT !.done = TRUE, !.result = clampInt(call.args[1], call.args[2], call.args[3])]
  /\ ev' = Event("call", FALSE, TRUE, Idle)
  /\ UNCHANGED << now, node, settings, attached, tuyaCluster, endpoint1, rawHandler,
                  lastSoilMoisturePercent, pendingSettingsApply, lastWakeHandledAt,
                  caps, available, tasks, extLeft, out, attachLog >>

InitConvert ==
  /\ Unattached
  /\ call \in {Call("toTuyaTemperatureCalibrationTenths", << c >>) : c \in OffsetsC}
              \cup {Call("toTuyaPercentCalibration", << p >>) : p \in PercentSettings}
              \cup {Call("toTuyaSamplingSeconds", << s >>) : s \in SecondsSettings}
              \cup {Call("toTuyaSoilWarningThresholdPercent", << p >>) :
                      p \in PercentSettings}
              \cup {Call("clampInt", << v, 0, 10 >>) : v \in ClampIntInputs}

NextConvert ==
  \/ CallToTuyaTemperatureCalibrationTenths
  \/ CallToTuyaPercentCalibration
  \/ CallToTuyaSamplingSeconds
  \/ CallToTuyaSoilWarningThresholdPercent
  \/ CallClampInt

SpecConvert == InitConvert /\ [][NextConvert]_vars

(* C32: toTuyaTemperatureCalibrationTenths(c) is 10 c rounded to the nearest
   integer for c within -2.0..2.0, 20 above and -20 below; the other three
   converters return a whole number of their range unchanged and the nearest
   bound of the range for a number outside it (-30..30, 5..3600, 0..100);
   clampInt(v, min, max) is v clamped to min..max and then rounded. *)
C32_ConvertersClampAndRound ==
  call.done =>
    LET v == call.args[1]
        r == call.result
        Within(lo, hi) ==
          /\ (v >= lo * Scale /\ v <= hi * Scale /\ v % Scale = 0) => r * Scale = v
          /\ v > hi * Scale => r = hi
          /\ v < lo * Scale => r = lo
    IN CASE call.fn = "toTuyaTemperatureCalibrationTenths" ->
              r = IF v > 2 * Scale THEN 20
                  ELSE IF v < -(2 * Scale) THEN -20
                  ELSE (10 * v + (Scale \div 2)) \div Scale
         [] call.fn = "toTuyaPercentCalibration" -> Within(-30, 30)
         [] call.fn = "toTuyaSamplingSeconds" -> Within(5, 3600)
         [] call.fn = "toTuyaSoilWarningThresholdPercent" -> Within(0, 100)
         [] call.fn = "clampInt" ->
              LET lo == call.args[2] * Scale
                  hi == call.args[3] * Scale
                  clamped == IF v < lo THEN lo ELSE IF v > hi THEN hi ELSE v
              IN r = (clamped + (Scale \div 2)) \div Scale
         [] OTHER -> TRUE

(* toTuyaTemperatureCalibrationTenths(-0.5) has returned -5. *)
C32_Witness ==
  /\ call.done
  /\ call.fn = "toTuyaTemperatureCalibrationTenths"
  /\ call.args = << -(Scale \div 2) >>
  /\ call.result = -5

----------------------------------------------------------------------------
(* Frames of the Tuya cluster arriving at the intercepted handler *)

(* Entries the device reports: soil moisture 54 and 20 under the two
   identifiers, temperature 54 (5.4 degrees), and a soil moisture sent as a
   boolean without data, for which parseDpValue throws. *)
InboundEntries ==
  { [dp |-> 107, datatype |-> DT_VALUE, data |-> writeInt32BE(54)],
    [dp |-> 3, datatype |-> DT_VALUE, data |-> writeInt32BE(20)],
    [dp |-> 101, datatype |-> DT_VALUE, data |-> writeInt32BE(54)],
    [dp |-> 107, datatype |-> DT_BOOL, data |-> << >>] }

(* Reports (command 2) with a plain header and up to MaxEntries entries. *)
InboundFrames ==
  {EncodeFrame(<< 1, 1, 2 >>, 0, 16, es) :
     es \in UNION {[1..n -> InboundEntries] : n \in 0..MaxEntries}}

FrameArrives ==
  /\ extLeft > 0
  /\ extLeft' = extLeft - 1
  /\ \E frame \in InboundFrames : HandleFrame(TUYA_CLUSTER_ID, frame)
  /\ UNCHANGED << now, node, settings, attached, tuyaCluster, endpoint1, rawHandler,
                  pendingSettingsApply, available, attachLog, call >>

(* A sleepy node with endpoint 1, with or without the Tuya cluster. *)
InitFrames ==
  /\ Init
  /\ ~node.receiveWhenIdle
  /\ node.hasEndpoint1 /\ ~node.hasPowerCfg /\ ~node.firstInit

NextFrames ==
  \/ OnNodeInit
  \/ FrameArrives
  \/ \E i \in 1..Len(tasks), ok \in BOOLEAN : AvailSettled(i, ok)

SpecFrames == InitFrames /\ [][NextFrames]_vars

(* C33: the entries of a frame are processed in the order in which they were
   decoded: of two calls of processDataPoint made for a frame, the later one
   is for a later entry of the frame. *)
C33_EntriesInDecodedOrder ==
  ev.op = "frame" =>
    \A i, j \in 1..Len(ev.dispatched) :
      i < j => ev.dispatched[i].entry < ev.dispatched[j].entry

(* C34: no entry of a frame is processed twice: no two calls of
   processDataPoint made for a frame are for the same entry. *)
C34_EntryProcessedAtMostOnce ==
  ev.op = "frame" =>
    \A i, j \in 1..Len(ev.dispatched) :
      i # j => ev.dispatched[i].entry # ev.dispatched[j].entry

(* C35: a rejected datapoint write does not keep the writes after it from
   being sent: the step in which a write that is not the last of its payload
   is rejected sends the next write of the payload, in the full payload of a
   wake handler or of an always-on attach as in the writes of onSettings. *)
C35_RejectedWriteDoesNotStopTheRest ==
  [][ (/\ ev'.op = "writeSettled" /\ ~ev'.ok
       /\ ev'.task.idx < Len(ev'.task.payload))
      => out' = << ev'.task.payload[ev'.task.idx + 1] >> ]_vars

(* C36: every write of datapoint 106 carries 0 and is the first write of a
   full settings payload, sent by applyDeviceSettings at an always-on attach
   or in a wake handler; the writes of a settings change hold no write of
   datapoint 106. *)
C36_UnitAlwaysCelsius ==
  /\ \A k \in 1..Len(out) :
       (out[k].req = "write" /\ out[k].dp = 106) =>
         /\ out[k].val = 0
         /\ ev.op \in {"onNodeInit", "magicSettled", "availSettled"}
         /\ \E i \in 1..Len(tasks) :
              /\ tasks[i].kind \in {"init", "wake"}
              /\ tasks[i].idx = 1 /\ Len(tasks[i].payload) = 7
              /\ tasks[i].payload[1] = out[k]
  /\ \A i \in 1..Len(tasks) :
       tasks[i].kind = "settings" =>
         \A j \in 1..Len(tasks[i].payload) : tasks[i].payload[j].dp # 106

(* A wake handler of a sleepy device starts the full payload with the write
   of datapoint 106, after a change of the settings was queued. *)
C36_Witness ==
  /\ ev.op = "availSettled"
  /\ ~node.receiveWhenIdle
  /\ settings # InitialSettings
  /\ out = << [req |-> "write", dp |-> 106, val |-> 0] >>

(* C37: on a device that is always-on, pendingSettingsApply is never true
   and the wake handler sends no settings write; pendingSettingsApply
   becomes true only in a call of onSettings on a sleepy device. *)
C37_AlwaysOnNeverPending ==
  [][ /\ node.receiveWhenIdle =>
           /\ ~pendingSettingsApply'
           /\ (ev'.op = "availSettled" => Writes(out') = 0)
      /\ (~pendingSettingsApply /\ pendingSettingsApply') =>
           (ev'.op = "onSettings" /\ ~node.receiveWhenIdle) ]_vars

(* The wake handler of an always-on device has passed its settings step
   while the writes of a settings change are under way. *)
C37_Witness ==
  /\ node.receiveWhenIdle
  /\ ev.op = "availSettled"
  /\ out = << >>
  /\ \E i \in 1..Len(tasks) : tasks[i].kind = "settings"
  /\ ~pendingSettingsApply

(* C38: the debounce gates the wake handling alone. Whether the wake of a
   Tuya frame is handled or debounced, every entry the decoder returned, up
   to one whose value cannot be read, was handed to processDataPoint in the
   step of the frame, and the soil moisture and the temperature published
   after the step are those of entries of the frame; the wake handling of
   the frame, when there is one, is then at its first await. *)
C38_DebounceDoesNotGateData ==
  ev.op = "frame" =>
    LET es == decodeTuyaDpValuesFromZclFrame(ev.frame).dpValues
        unread == {k \in 1..Len(es) : es[k].datatype # 2}
        reached == {k \in 1..Len(es) : \A m \in unread : k <= m}
        soil == {k \in reached : es[k].dp \in {3, 107} /\ es[k].datatype = 2}
        temperature == {k \in reached : es[k].dp = 101 /\ es[k].datatype = 2}
    IN /\ \A k \in reached :
            \E m \in 1..Len(ev.dispatched) :
              /\ ev.dispatched[m].entry = k /\ ev.dispatched[m].via = "raw"
              /\ ev.dispatched[m].dp = es[k].dp
              /\ ev.dispatched[m].data = es[k].data
       /\ soil # {} =>
            \E k \in soil : caps.measure_soil_moisture = << es[k].data[4] * Scale >>
       /\ temperature # {} =>
            \E k \in temperature :
              caps.measure_temperature = << (es[k].data[4] * Scale) \div 10 >>
       /\ ev.handled =>
            /\ tasks # << >>
            /\ tasks[Len(tasks)].kind = "wake" /\ tasks[Len(tasks)].pc = "avail"

(* A frame with the soil moisture 20 arrived inside the window of the wake
   before it: its wake was debounced and the 20 is published. *)
C38_Witness ==
  /\ ev.op = "frame" /\ ~ev.handled
  /\ now - lastWakeHandledAt < 5000
  /\ ev.frame = << 1, 1, 2, 0, 16, 3, 2, 0, 4, 0, 0, 0, 20 >>
  /\ caps.measure_soil_moisture = << 20 * Scale >>

----------------------------------------------------------------------------
(* A steady stream of wake events *)

(* The device is about to send its next wake signal. *)
DeviceWakesAgain ==
  /\ extLeft = 0
  /\ extLeft' = 1
  /\ ev' = Event("wakesAgain", FALSE, FALSE, Idle)
  /\ out' = << >>
  /\ UNCHANGED << now, node, settings, attached, tuyaCluster, endpoint1, rawHandler,
                  lastSoilMoisturePercent, pendingSettingsApply, lastWakeHandledAt,
                  caps, available, tasks, attachLog, call >>

(* An attached sleepy device with its Tuya cluster and no change queued,
   before its first wake event. *)
InitStream ==
  /\ now = DEBOUNCE_MS
  /\ node \in {n \in NodeConfigs : n.receiveWhenIdle = FALSE /\ ~n.firstInit /\ n.hasTuya}
  /\ settings = InitialSettings
  /\ attached = TRUE
  /\ tuyaCluster = TRUE
  /\ endpoint1 = TRUE
  /\ rawHandler = TRUE
  /\ lastSoilMoisturePercent = << >>
  /\ pendingSettingsApply = FALSE
  /\ lastWakeHandledAt = 0
  /\ caps = NoCapabilities
  /\ available = FALSE
  /\ tasks = << >>
  /\ extLeft = 1
  /\ ev = Event("onNodeInit", FALSE, FALSE, Idle)
  /\ out = << >>
  /\ attachLog = [isSleepy |-> << TRUE >>, magicPackets |-> 0]
  /\ call = NoCall

(* The wake signals of the stream. *)
StreamEvent ==
  \/ OnEndDeviceAnnounce
  \/ ReportArrives

NextStream ==
  \/ StreamEvent
  \/ DeviceWakesAgain
  \/ \E i \in 1..Len(tasks), ok \in BOOLEAN : AvailSettled(i, ok)
  \/ \E i \in 1..Len(tasks), ok \in BOOLEAN, r \in {<< >>} \cup {<< v >> : v \in BatteryReports} :
        BatterySettled(i, ok, r)
  \/ Tick
  \/ Rebase

(* Time passes, the device keeps sending wake signals, and every await
   settles in the end. *)
SpecStream ==
  /\ InitStream /\ [][NextStream]_vars
  /\ WF_vars(Tick) /\ WF_vars(Rebase)
  /\ WF_vars(StreamEvent) /\ WF_vars(DeviceWakesAgain)
  /\ WF_vars(SettleOldest)

(* C39: the debounce is measured from the wake event handled last.
   lastWakeHandledAt changes only in a step that handles a wake event and
   becomes the time of that event; a wake event 5000 ms or more after the
   one handled last is handled, so the first after the attach is; and under
   a stream of wake events that never ends, events are handled again and
   again. *)
C39_DebounceFromLastHandled ==
  /\ [][ /\ (lastWakeHandledAt' # lastWakeHandledAt /\ ev'.op # "rebase") =>
               (ev'.handled /\ lastWakeHandledAt' = now)
         /\ (ev'.op \in {"announce", "frame"} /\ now - lastWakeHandledAt >= 5000) =>
               (ev'.handled /\ lastWakeHandledAt' = now) ]_vars
  /\ []<>(ev.op \in {"announce", "frame"} /\ ev.handled)

(* A wake event was handled, two ticks after the attach, on a device that
   an earlier wake handling had made available. *)
C39_Witness ==
  /\ ev.op \in {"announce", "frame"} /\ ev.handled
  /\ available
  /\ lastWakeHandledAt = now
  /\ now = 2 * DEBOUNCE_MS

----------------------------------------------------------------------------
(* setDatapointValue called on its own, and its payload read back *)

(* The least and the greatest 32-bit integer. *)
INT32_MIN == -2147483647 - 1
INT32_MAX == 2147483647

(* 32-bit integers: the ends of the range, the values at which a byte
   carries, and the small ones. *)
Int32Samples ==
  {INT32_MIN, INT32_MIN + 1, -16777217, -16777216, -65537, -65536, -32769, -32768,
   -257, -256, 32767, 32768, 65535, 65536, 16777215, 16777216,
   INT32_MAX - 1, INT32_MAX}
    \cup (-130..130) \cup {3599, 3600}

(* The writes of values the device makes, for settings of every kind. *)
DeviceValueWrites ==
  {KeyWrite(key, v) : key \in SettingKeys,
                      v \in WildValues \cup {InitialSettings[k] : k \in SettingKeys}}

(* setDatapointValue(dp, value): the datapoint command handed to
   sendDatapoint. *)
setDatapointValue(dp, value) ==
  [status |-> 0, dp |-> dp, datatype |-> DT_VALUE, length |-> 4,
   data |-> writeInt32BE(value)]

CallSetDatapointValue ==
  /\ call.fn = "setDatapointValue" /\ ~call.done
  /\ call' = [call EXCEPT !.done = TRUE,
                          !.result = setDatapointValue(call.args[1], call.args[2])]
  /\ ev' = Event("call", FALSE, TRUE, Idle)
  /\ UNCHANGED << now, node, settings, attached, tuyaCluster, endpoint1, rawHandler,
                  lastSoilMoisturePercent, pendingSettingsApply, lastWakeHandledAt,
                  caps, available, tasks, extLeft, out, attachLog >>

(* The payload of the command is given to parseDpValue with the type tag of
   the command; the value written goes with the call as its third argument,
   which parseDpValue does not see. *)
SentValueReadBack ==
  /\ call.fn = "setDatapointValue" /\ call.done
  /\ call' = Call("parseDpValue",
                  << call.result.datatype, call.result.data, call.args[2] >>)
  /\ ev' = Event("call", FALSE, TRUE, Idle)
  /\ UNCHANGED << now, node, settings, attached, tuyaCluster, endpoint1, rawHandler,
                  lastSoilMoisturePercent, pendingSettingsApply, lastWakeHandledAt,
                  caps, available, tasks, extLeft, out, attachLog >>

InitSend ==
  /\ Unattached
  /\ call \in {Call("setDatapointValue", << DP_SOIL_CALIBRATION, v >>) :
                 v \in Int32Samples}
              \cup {Call("setDatapointValue", << w.dp, w.val >>) :
                      w \in DeviceValueWrites}

NextSend ==
  \/ CallSetDatapointValue
  \/ SentValueReadBack
  \/ CallParseDpValue

SpecSend == InitSend /\ [][NextSend]_vars

(* C40: the 4 bytes setDatapointValue writes for a 32-bit integer are read
   by parseDpValue under type tag 2 as that integer, and the values written
   are 32-bit integers. *)
C40_WrittenValueReadsBack ==
  (call.fn = "parseDpValue" /\ call.done /\ Len(call.args) = 3) =>
    /\ call.args[1] = 2
    /\ Len(call.args[2]) = 4
    /\ call.args[3] >= -2147483647 - 1 /\ call.args[3] <= 2147483647
    /\ call.result = [t |-> "number", v |-> call.args[3]]

(* The least 32-bit integer was written as 80 00 00 00 and read back. *)
C40_Witness ==
  /\ call.fn = "parseDpValue" /\ call.done
  /\ call.args = << 2, << 128, 0, 0, 0 >>, -2147483647 - 1 >>
  /\ call.result = [t |-> "number", v |-> -2147483647 - 1]

====
